---- MODULE Spec2Model ----
(***************************************************************************)
(* State-machine model of gerbonara's Excellon parser, Gerber tokenizer    *)
(* and Gerber parser / graphics state.                                     *)
(*                                                                         *)
(* run  : which component is being driven ("excellon", "tokenizer",        *)
(*        "gerber"); fixed by the initial state.                           *)
(* ex   : the fields of one ExcellonParser instance.                       *)
(* tk   : the locals of one GerberParser._split_commands generator.        *)
(* gb   : the fields of one GerberParser and of its GraphicsState.         *)
(* last : history of the input consumed: which line/command the last item  *)
(*        was, which handler it was dispatched to, its match groups, the   *)
(*        warnings issued; for Gerber also whether an IPNEG has been read. *)
(* files: the files that the file-level operations act on, with the        *)
(*        objects they share.                                              *)
(***************************************************************************)
EXTENDS Integers, Sequences, FiniteSets, TLC

VARIABLES run, ex, tk, gb, last, files

vars == <<run, ex, tk, gb, last, files>>

\* ------------------------------------------------------------------------
\* Bounds of the model
\* ------------------------------------------------------------------------
MaxCoord == 1
MaxObjs == 1
MaxLen == 5
MaxSegs == 1
MaxComments == 1
\* the larger limits of the specifications that follow a file further
DeepObjs == 2
DeepSegs == 2
\* apertures in each Gerber file before a merge; merges followed
MaxAps == 2
MaxMerges == 2
\* objects in an Excellon file handed to split_by_plating or bounds
MaxFileObjs == 3
\* apertures and objects of a file whose statements are generated
MaxGenAps == 3
MaxGenObjs == 2
\* objects of a file that is written and read back
MaxTripObjs == 2
\* objects of an Excellon file that is written
MaxXncObjs == 2
\* lines of an Allegro parameter file
MaxNcLines == 2
\* objects of a file that is moved by an offset
MaxOffsetObjs == 2
\* objects of a file that is written by to_gerber
MaxToGerberObjs == 1
\* objects drawn between image transform statements
MaxMapObjs == 2
\* largest coordinate of the arcs of multi-quadrant mode
MaxArcCoord == 2

\* Python's None for a coordinate, a tool, an aperture
None == -1

\* positions followed by the model; coordinate values written in input lines
Coords == 0 .. MaxCoord
InCoords == {0, 1}
OptCoords == {None} \cup InCoords

\* ========================================================================
\* Excellon parser (excellon.py, class ExcellonParser)
\* ========================================================================

\* tool table indices that input lines define (T1...) and select (T0, T1, T2)
DefIndices == {1}
SelIndices == {0, 1, 2}
Diameters == {1, 2}

NoTool == [diameter |-> None]
ExcellonTool(d) == [diameter |-> d]

\* graphic_objects.Flash / Line / Arc as the Excellon parser builds them
Flash(x, y, tool) == [type |-> "Flash", x |-> x, y |-> y, tool |-> tool]
Line(p1, p2, tool) ==
    [type |-> "Line", x1 |-> p1[1], y1 |-> p1[2], x2 |-> p2[1], y2 |-> p2[2], tool |-> tool]
Arc(p1, p2, i, j, cw, tool) ==
    [type |-> "Arc", x1 |-> p1[1], y1 |-> p1[2], x2 |-> p2[1], y2 |-> p2[2],
     cx |-> i, cy |-> j, clockwise |-> cw, tool |-> tool]

\* ExcellonParser.__init__
ExInit ==
    [program_state |-> "none",
     tools |-> [i \in DefIndices |-> NoTool],
     objects |-> << >>,
     active_tool |-> NoTool,
     pos |-> <<0, 0>>,
     drill_down |-> FALSE,
     absolute |-> TRUE,
     leftover |-> "none",
     err |-> "none"]

\* result of running a handler on parser record p: the new record and the
\* warnings issued
Res(p, w) == [p |-> p, w |-> w]
Raise(p, e) == [p |-> [p EXCEPT !.err = e], w |-> {}]

\* the element of a one-element set; The({e : x \in {v}}) is e with x bound
\* to the value of v, which is computed once
The(S) == CHOOSE r \in S : TRUE

\* match[name] on a regex match object: a group the pattern does not define
\* raises IndexError
HasGroup(m, name) == name \in DOMAIN m

\* FileSettings.parse_gerber_value on the text of a group: an absent or
\* empty group gives None, digits give their value
parse_gerber_value(text) == text

\* ExcellonParser.do_move: reads groups X and Y of the match (whatever names
\* the caller passes) and moves self.pos per the notation
do_move(p, m) ==
    IF ~(HasGroup(m, "X") /\ HasGroup(m, "Y")) THEN Raise(p, "IndexError")
    ELSE LET x == parse_gerber_value(m.X)
             y == parse_gerber_value(m.Y)
             nx == IF x = None THEN p.pos[1]
                   ELSE IF p.absolute THEN x ELSE p.pos[1] + x
             ny == IF y = None THEN p.pos[2]
                   ELSE IF p.absolute THEN y ELSE p.pos[2] + y
         IN Res([p EXCEPT !.pos = <<nx, ny>>], {})

\* ExcellonParser.ensure_active_tool
ensure_active_tool(p) == p.active_tool # NoTool

\* ';T01 Holesize 1. = ... PLATED MILS Quantity = n'
parse_allegro_tooldef(p, m) ==
    LET p1 == [p EXCEPT !.program_state = "header"]
    IN IF m.index1 # m.index2 THEN Raise(p1, "SyntaxError")
       ELSE Res([p1 EXCEPT !.tools[m.index1] = ExcellonTool(m.diameter)],
                IF p.tools[m.index1] # NoTool THEN {"redefinition"} ELSE {})

\* ';Holesize 1 = 0.5 INCH'
parse_easyeda_tooldef(p, m) ==
    Res([p EXCEPT !.tools[m.index] = ExcellonTool(m.diameter)],
        IF p.tools[m.index] # NoTool THEN {"redefinition"} ELSE {})

\* 'T01C0.5'
parse_normal_tooldef(p, m) ==
    Res([p EXCEPT !.tools[m.index] = ExcellonTool(parse_gerber_value(m.diameter))],
        IF p.tools[m.index] # NoTool THEN {"redefinition"} ELSE {})

\* 'T01'
parse_tool_selection(p, m) ==
    IF m.index = 0 THEN Res(p, {})
    ELSE IF m.index \notin DOMAIN p.tools \/ p.tools[m.index] = NoTool
         THEN Raise(p, "SyntaxError")
    ELSE Res([p EXCEPT !.active_tool = p.tools[m.index]], {})

\* 'R<count>X<dx>Y<dy>': the pattern's groups are count, X, Y; the handler
\* reads match['x'] and match['y'], then assigns to items of the tuple pos
handle_repeat_hole(p, m) ==
    IF p.program_state = "header" THEN Res(p, {})
    ELSE IF ~(HasGroup(m, "x") /\ HasGroup(m, "y")) THEN Raise(p, "IndexError")
    ELSE IF m.count > 0 THEN Raise(p, "TypeError")
    ELSE Res(p, {})

\* 'M48': generator_hints is a list, calling it raises TypeError
handle_begin_header(p, m) ==
    IF p.program_state = "header" THEN Raise(p, "TypeError")
    ELSE Res([p EXCEPT !.program_state = "header"],
             IF p.program_state # "none" THEN {"M48_in_middle"} ELSE {})

\* the warnings of the header_command decorator
header_command(p) ==
    IF p.program_state = "none" THEN {"before_header"}
    ELSE IF p.program_state # "header" THEN {"after_header"}
    ELSE {}

\* 'M95'
handle_end_header(p, m) ==
    Res([p EXCEPT !.program_state = "drilling"], header_command(p))

\* 'M00': self.tools is a dict, which has no .index
handle_next_tool(p, m) ==
    IF p.active_tool # NoTool THEN Raise(p, "AttributeError")
    ELSE Res(p, {"M00_before_tool"})

\* 'M15'
handle_drill_down(p, m) == Res([p EXCEPT !.drill_down = TRUE], {})

\* 'M16' / 'M17'
handle_drill_up(p, m) == Res([p EXCEPT !.drill_down = FALSE], {})

\* 'M30'
handle_end_of_program(p, m) ==
    Res([p EXCEPT !.program_state = "finished"],
        IF p.program_state \in {"none", "header"} THEN {"M30_before_end_of_header"} ELSE {})

\* 'G00X..Y..'
handle_start_routing(p, m) ==
    LET mv == do_move([p EXCEPT !.program_state = "routing"], m)
    IN Res(mv.p, IF p.program_state = "none" THEN {"routing_before_header"} ELSE {})

\* handle_rewind_shorthand without its second branch
handle_rewind_shorthand_stuck(p, m) ==
    IF p.program_state = "none" THEN Res([p EXCEPT !.program_state = "header"], {})
    ELSE Res(p, {})

\* '%'
handle_rewind_shorthand(p, m) ==
    IF p.program_state = "none" THEN Res([p EXCEPT !.program_state = "header"], {})
    ELSE IF p.program_state = "header" THEN Res([p EXCEPT !.program_state = "drilling"], {})
    ELSE Res(p, {})

\* 'G05'
handle_drill_mode(p, m) ==
    Res([p EXCEPT !.drill_down = FALSE, !.program_state = "drilling"], {})

\* ExcellonParser.do_interpolation.  interpolation_mode is written by
\* handle_linear_mode right before this, its only reader, so it is carried
\* as the group mode.  The arc branches read the undefined name settings.
do_interpolation(p, m) ==
    LET mv == do_move(p, m)
        q == mv.p
    IN IF q.err # "none" THEN mv
       ELSE IF q.program_state # "routing" THEN Res(q, {})
       ELSE IF ~q.drill_down THEN Res(q, {})
       ELSE IF ~(HasGroup(m, "x") /\ HasGroup(m, "y")) THEN Raise(q, "IndexError")
       ELSE IF m.x = None /\ m.y = None THEN Res(q, {})
       ELSE IF ~ensure_active_tool(q) THEN Res(q, {"no_tool"})
       ELSE IF m.mode = "G01"
            THEN Res([q EXCEPT !.objects = Append(@, Line(p.pos, q.pos, q.active_tool))],
                     IF m.A # None \/ m.I # None \/ m.J # None THEN {"arc_in_linear"} ELSE {})
       ELSE Raise(q, "NameError")

\* 'G01X..Y..', 'G02X..Y..A..', 'G03X..Y..I..J..'
handle_linear_mode(p, m) == do_interpolation(p, m)

\* 'G90'
handle_absolute_mode(p, m) == Res([p EXCEPT !.absolute = TRUE], header_command(p))

\* 'ICI,ON' / 'ICI,OFF'
handle_incremental_mode(p, m) == Res([p EXCEPT !.absolute = ~m.on], {})

\* 'X1Y1G85X2Y2': the pattern's groups are x1, y1, x2, y2; both do_move
\* calls read groups X and Y
handle_slot_dotted(p, m) ==
    LET mv1 == do_move(p, m)
        mv2 == do_move(mv1.p, m)
        q == mv2.p
    IN IF mv1.p.err # "none" THEN Res(mv1.p, {"weird_G85"})
       ELSE IF q.err # "none" THEN Res(q, {"weird_G85"})
       ELSE IF q.program_state \in {"drilling", "header"} /\ ensure_active_tool(q)
            THEN Res([q EXCEPT !.objects = Append(@, Line(mv1.p.pos, q.pos, q.active_tool))],
                     {"weird_G85"})
       ELSE Res(q, {"weird_G85"} \cup
                   (IF q.program_state \in {"drilling", "header"} THEN {"no_tool"} ELSE {}))

\* handle_naked_coordinate without the test of the program state
handle_naked_coordinate_any_state(p, m) ==
    LET mv == do_move(p, m)
        q == mv.p
    IN IF q.err # "none" THEN mv
       ELSE IF ~ensure_active_tool(q) THEN Res(q, {"no_tool"})
       ELSE Res([q EXCEPT !.objects = Append(@, Flash(q.pos[1], q.pos[2], q.active_tool))], {})

\* 'X..Y..'
handle_naked_coordinate(p, m) ==
    LET mv == do_move(p, m)
        q == mv.p
    IN IF q.err # "none" THEN mv
       ELSE IF ~ensure_active_tool(q) THEN Res(q, {"no_tool"})
       ELSE IF q.program_state \notin {"drilling", "header"} THEN Res(q, {})
       ELSE Res([q EXCEPT !.objects = Append(@, Flash(q.pos[1], q.pos[2], q.active_tool))], {})

\* ';HEADER:'
parse_allegro_start_of_header(p, m) == Res([p EXCEPT !.program_state = "header"], {})

\* ';...' and the other lines whose handlers touch only comments, hints,
\* unit, number format or plating
parse_comment(p, m) == Res(p, {})

\* RegexMatcher.handle: the handler whose pattern matches the whole line.
\* kind names the handler the input line matches on its own; a line that
\* _do_parse has prefixed with a pending 'G00' / 'G01' matches the routing
\* patterns if it is a coordinate line and no pattern otherwise.
Dispatch(leftover, kind) ==
    IF leftover = "none" THEN kind
    ELSE IF kind = "naked_coordinate"
         THEN (IF leftover = "G00" THEN "start_routing" ELSE "linear_mode")
    ELSE "unmatched"

\* the match object of the line as dispatched
MatchOf(leftover, kind, m) ==
    IF leftover = "G01" /\ kind = "naked_coordinate"
    THEN [mode |-> "G01", X |-> m.X, Y |-> m.Y, A |-> None, I |-> None, J |-> None]
    ELSE m

Handle(h, p, m) ==
    CASE h = "allegro_tooldef" -> parse_allegro_tooldef(p, m)
      [] h = "easyeda_tooldef" -> parse_easyeda_tooldef(p, m)
      [] h = "normal_tooldef" -> parse_normal_tooldef(p, m)
      [] h = "tool_selection" -> parse_tool_selection(p, m)
      [] h = "repeat_hole" -> handle_repeat_hole(p, m)
      [] h = "begin_header" -> handle_begin_header(p, m)
      [] h = "end_header" -> handle_end_header(p, m)
      [] h = "next_tool" -> handle_next_tool(p, m)
      [] h = "drill_down" -> handle_drill_down(p, m)
      [] h = "drill_up" -> handle_drill_up(p, m)
      [] h = "end_of_program" -> handle_end_of_program(p, m)
      [] h = "start_routing" -> handle_start_routing(p, m)
      [] h = "rewind_shorthand" -> handle_rewind_shorthand(p, m)
      [] h = "drill_mode" -> handle_drill_mode(p, m)
      [] h = "linear_mode" -> handle_linear_mode(p, m)
      [] h = "absolute_mode" -> handle_absolute_mode(p, m)
      [] h = "incremental_mode" -> handle_incremental_mode(p, m)
      [] h = "slot_dotted" -> handle_slot_dotted(p, m)
      [] h = "naked_coordinate" -> handle_naked_coordinate(p, m)
      [] h = "allegro_start_of_header" -> parse_allegro_start_of_header(p, m)
      [] h = "comment" -> parse_comment(p, m)
      [] OTHER -> Res(p, {})

\* one iteration of the loop of ExcellonParser._do_parse on a line that is
\* not a bare 'G00' / 'G01'
do_parse_line(p, kind, m) ==
    LET h == Dispatch(p.leftover, kind)
        res == Handle(h, [p EXCEPT !.leftover = "none"], MatchOf(p.leftover, kind, m))
    IN [p |-> res.p, h |-> h,
        w |-> res.w \cup (IF p.program_state = "finished" THEN {"after_end_of_program"} ELSE {})]

\* one iteration of the loop of ExcellonParser._do_parse on a bare 'G00' or
\* 'G01': the line is kept and prefixed to the next one
do_parse_bare(p, g) ==
    [p |-> [p EXCEPT !.leftover = g], h |-> "deferred",
     w |-> IF p.leftover # "none" THEN {"two_consecutive"} ELSE {}]

\* the parser is still reading lines: no exception has ended the parse; the
\* model follows inputs that produce at most MaxObjs objects
ExRunning == run = "excellon" /\ ex.err = "none" /\ Len(ex.objects) < MaxObjs

\* arg records the tool index written on a tool selection line
ExStep(kind, r, arg) ==
    /\ ExRunning
    /\ r.p.pos[1] \in Coords /\ r.p.pos[2] \in Coords
    /\ ex' = r.p
    /\ last' = [item |-> kind, h |-> r.h, w |-> r.w, arg |-> arg]
    /\ UNCHANGED <<run, tk, gb, files>>

ExLine(kind, m) ==
    ExStep(kind, do_parse_line(ex, kind, m), IF kind = "tool_selection" THEN m.index ELSE None)

XY == [X : OptCoords, Y : OptCoords]

LineAllegroTooldef ==
    \E i1 \in DefIndices, i2 \in DefIndices \cup {0}, d \in Diameters :
        ExLine("allegro_tooldef", [index1 |-> i1, index2 |-> i2, diameter |-> d])
LineEasyedaTooldef ==
    \E i \in DefIndices, d \in Diameters :
        ExLine("easyeda_tooldef", [index |-> i, diameter |-> d])
LineNormalTooldef ==
    \E i \in DefIndices, d \in Diameters :
        ExLine("normal_tooldef", [index |-> i, diameter |-> d])
LineToolSelection == \E i \in SelIndices : ExLine("tool_selection", [index |-> i])
LineRepeatHole ==
    \E c \in {0, 2}, m \in XY :
        ExLine("repeat_hole", [count |-> c, X |-> m.X, Y |-> m.Y])
LineM48 == ExLine("begin_header", << >>)
LineM95 == ExLine("end_header", << >>)
LineM00 == ExLine("next_tool", << >>)
LineM15 == ExLine("drill_down", << >>)
LineM16 == ExLine("drill_up", << >>)
LineM30 == ExLine("end_of_program", << >>)
LineG00 == \E m \in XY : ExLine("start_routing", m)
LinePercent == ExLine("rewind_shorthand", << >>)
LineG05 == ExLine("drill_mode", << >>)
LineG01 ==
    \E g \in {"G01", "G02", "G03"}, m \in XY :
        ExLine("linear_mode",
               [mode |-> g, X |-> m.X, Y |-> m.Y,
                A |-> IF g = "G02" THEN 1 ELSE None,
                I |-> IF g = "G03" THEN 1 ELSE None,
                J |-> IF g = "G03" THEN 0 ELSE None])
LineG90 == ExLine("absolute_mode", << >>)
LineICI == \E on \in BOOLEAN : ExLine("incremental_mode", [on |-> on])
LineG85 ==
    \E a \in InCoords, c \in InCoords :
        ExLine("slot_dotted", [x1 |-> a, y1 |-> 0, x2 |-> c, y2 |-> c])
LineCoord == \E m \in XY : ExLine("naked_coordinate", m)
LineHeaderComment == ExLine("allegro_start_of_header", << >>)
LineComment == ExLine("comment", << >>)
LineBareG == \E g \in {"G00", "G01"} : ExStep(g, do_parse_bare(ex, g), None)

NextX ==
    \/ LineAllegroTooldef \/ LineEasyedaTooldef \/ LineNormalTooldef
    \/ LineToolSelection \/ LineRepeatHole
    \/ LineM48 \/ LineM95 \/ LineM00 \/ LineM15 \/ LineM16 \/ LineM30
    \/ LineG00 \/ LinePercent \/ LineG05 \/ LineG01 \/ LineG90 \/ LineICI
    \/ LineG85 \/ LineCoord \/ LineHeaderComment \/ LineComment \/ LineBareG

\* ========================================================================
\* Gerber tokenizer (rs274x.py, GerberParser._split_commands)
\* ========================================================================
\* The input alphabet: each symbol stands for one character, except "G04",
\* which stands for the three characters of the comment code, " " for a
\* blank and "x" for any other character.
Alphabet == {"%", "*", "\n", "\r", "G04", "x", " "}
Delims == {"*", "\r", "\n"}

\* the locals of _split_commands before the first character; data is the
\* input consumed so far and out the commands yielded so far
TkInit ==
    [data |-> << >>, start |-> 0, extended_command |-> FALSE, lineno |-> 1, out |-> << >>]

\* str.startswith('G04')
StartsWithG04(text) == Len(text) > 0 /\ text[1] = "G04"

\* str.strip() of a text that holds no line break
RECURSIVE LStrip(_)
LStrip(text) ==
    IF Len(text) > 0 /\ text[1] = " " THEN LStrip(Tail(text)) ELSE text
RECURSIVE RStrip(_)
RStrip(text) ==
    IF Len(text) > 0 /\ text[Len(text)] = " "
    THEN RStrip(SubSeq(text, 1, Len(text) - 1)) ELSE text
Strip(text) == RStrip(LStrip(text))

\* data[start:pos] with pos the index of the character being read
Pending(t) == SubSeq(t.data, t.start + 1, Len(t.data))

\* the '%' branch without the test for a G04 comment
open_extended_always(t) == TRUE

\* the '%' branch taken while no extended command is open
open_extended(t) == ~StartsWithG04(Pending(t))

\* one iteration of the loop of _split_commands, on character c at index
\* pos = len(data consumed so far)
split_step(t, c) ==
    LET pos == Len(t.data)
        ln == IF c = "\n" THEN t.lineno + 1 ELSE t.lineno
        t1 == [t EXCEPT !.data = Append(@, c), !.lineno = ln]
    IN IF c = "%"
       THEN IF t.extended_command
            THEN [t1 EXCEPT !.out = Append(@, [lineno |-> ln, text |-> Pending(t)]),
                            !.extended_command = FALSE,
                            !.start = pos + 1]
            ELSE [t1 EXCEPT !.extended_command = open_extended(t),
                            !.start = pos + 1]
       ELSE IF t.extended_command THEN t1
       ELSE IF c \in Delims
            THEN LET word_command == Strip(Pending(t))
                 IN [t1 EXCEPT !.out = IF word_command # << >>
                                       THEN Append(@, [lineno |-> ln, text |-> word_command])
                                       ELSE @,
                               !.start = pos + 1]
       ELSE t1

\* the generator reads the next character of the input
TkChar ==
    /\ run = "tokenizer"
    /\ Len(tk.data) < MaxLen
    /\ \E c \in Alphabet :
        /\ tk' = split_step(tk, c)
        /\ last' = [item |-> c, h |-> "split", w |-> {}]
    /\ UNCHANGED <<run, ex, gb, files>>

NextT == TkChar

\* ========================================================================
\* Gerber parser and graphics state (rs274x.py)
\* ========================================================================
\* The record gb holds the fields of one GerberParser and of the
\* GraphicsState it owns.  GraphicsState.multi_quadrant_mode is never read or
\* written after construction; multi_quadrant_mode below is the parser's.
\* Not followed: file_settings (unit, number format, notation), comments,
\* layer hints, attribute dictionaries, aperture macros, unit_warning.

\* aperture numbers that AD statements define and that D statements select
ApNumbers == {10}
SelNumbers == {5, 10, 11}

NoPoint == << >>
NoMat == << >>
NoAperture == [shape |-> "none"]
NoRegion == [type |-> "None"]
NoObj == [type |-> "None"]

\* apertures.CircleAperture
CircleAperture(d) == [shape |-> "C", diameter |-> d]

\* graphic_objects.Flash / Line / Arc / Region as the Gerber parser builds them
GerberFlash(pt, aperture, dark) ==
    [type |-> "Flash", x |-> pt[1], y |-> pt[2], aperture |-> aperture, polarity_dark |-> dark]
GerberLine(p1, p2, aperture, dark) ==
    [type |-> "Line", x1 |-> p1[1], y1 |-> p1[2], x2 |-> p2[1], y2 |-> p2[2],
     aperture |-> aperture, polarity_dark |-> dark]
GerberArc(p1, p2, c, cw, aperture, dark) ==
    [type |-> "Arc", x1 |-> p1[1], y1 |-> p1[2], x2 |-> p2[1], y2 |-> p2[2],
     cx |-> c[1], cy |-> c[2], clockwise |-> cw,
     aperture |-> aperture, polarity_dark |-> dark]
Region(dark) ==
    [type |-> "Region", polarity_dark |-> dark, outline |-> << >>, arc_centers |-> << >>]

\* a truth value of Region that is true of every region, empty or not
RegionBool_any(r) == r # NoRegion

\* Region.__bool__: bool(self.poly), true iff the outline holds a point
RegionBool(r) == r # NoRegion /\ Len(r.outline) > 0

\* Arc.center
ArcCenter(a) == <<a.cx + a.x1, a.cy + a.y1>>

\* Region.append
RegionAppend(r, obj) ==
    LET p1 == <<obj.x1, obj.y1>>
        p2 == <<obj.x2, obj.y2>>
        o1 == IF r.outline = << >> THEN <<p1>> ELSE r.outline
    IN [r EXCEPT !.outline = Append(o1, p2),
                 !.arc_centers = Append(@, IF obj.type = "Arc"
                                           THEN <<obj.clockwise, ArcCenter(obj)>>
                                           ELSE << >>)]

\* the attribute names of the input, and the value of a dictionary at a
\* name that is no key of it
AttrNames == {".GenerationSoftware", ".AperFunction"}
NoAttr == << >>

\* str.split(',') on the attribute values of the input
Split(value) ==
    CASE value = "EAGLE" -> <<"EAGLE">>
      [] value = "a,b" -> <<"a", "b">>
      [] value = "" -> <<"">>

\* the attribute dictionaries hold value lists at their keys; the hint lists
\* are followed as sets, comments is target.comments.
\* GerberParser.__init__, GraphicsState.__init__ and GerberFile.__init__.
\* aperture_map holds NoAperture at the numbers that are no key of the dict
\* and aperture_keys the keys in insertion order; apertures is
\* target.apertures and done tells that parse has returned.
GbInit ==
    [image_polarity |-> "positive",
     polarity_dark |-> TRUE,
     point |-> NoPoint,
     aperture |-> NoAperture,
     interpolation_mode |-> "LINEAR",
     image_offset |-> <<0, 0>>,
     image_rotation |-> 0,
     image_mirror |-> <<FALSE, FALSE>>,
     image_scale |-> <<1, 1>>,
     mat |-> NoMat,
     aperture_map |-> [n \in ApNumbers |-> NoAperture],
     aperture_keys |-> << >>,
     apertures |-> << >>,
     done |-> FALSE,
     current_region |-> NoRegion,
     objects |-> << >>,
     multi_quadrant_mode |-> "None",
     last_operation |-> "None",
     eof_found |-> FALSE,
     generator_hints |-> {},
     layer_hints |-> {},
     comments |-> << >>,
     file_attrs |-> [n \in AttrNames |-> NoAttr],
     object_attrs |-> [n \in AttrNames |-> NoAttr],
     aperture_attrs |-> [n \in AttrNames |-> NoAttr],
     err |-> "none"]

\* the polarity branch of GraphicsState.__setattr__ run on a store to
\* polarity_dark without the inversion
store_polarity_dark_as_given(g, value) == [g EXCEPT !.polarity_dark = value]

\* GraphicsState.__setattr__ for name = 'polarity_dark'
store_polarity_dark(g, value) ==
    [g EXCEPT !.polarity_dark = IF g.image_polarity = "negative" THEN ~value ELSE value]

\* GraphicsState.__setattr__ for name = 'image_polarity': while the stored
\* image polarity is negative it first stores polarity_dark = False, through
\* __setattr__ again
store_image_polarity(g, value) ==
    LET g1 == IF g.image_polarity = "negative" THEN store_polarity_dark(g, FALSE) ELSE g
    IN [g1 EXCEPT !.image_polarity = value]

\* GraphicsState._update_xform
update_xform(g) ==
    LET a0 == (IF g.image_mirror[1] THEN -1 ELSE 1) * g.image_scale[1]
        d0 == (IF g.image_mirror[2] THEN -1 ELSE 1) * g.image_scale[2]
        ox == g.image_offset[1]
        oy == g.image_offset[2]
        rot == g.image_rotation
    IN [g EXCEPT
          !.mat = CASE rot = 90 -> <<0, -d0, a0, 0>>
                    [] rot = 180 -> <<-a0, 0, 0, -d0>>
                    [] rot = 270 -> <<0, d0, -a0, 0>>
                    [] OTHER -> <<a0, 0, 0, d0>>,
          !.image_offset = CASE rot = 90 -> <<oy, -ox>>
                             [] rot = 180 -> <<-ox, -oy>>
                             [] rot = 270 -> <<-oy, ox>>
                             [] OTHER -> <<ox, oy>>]

\* the first two lines of GraphicsState.map_coord: the matrix is computed on
\* first use and kept
WithMat(g) == IF g.mat = NoMat THEN update_xform(g) ELSE g

\* the rest of GraphicsState.map_coord, on a state whose matrix is computed
map_coord(g, pt, relative) ==
    LET a == g.mat[1]
        b == g.mat[2]
        c == g.mat[3]
        d == g.mat[4]
        x == pt[1]
        y == pt[2]
    IN IF relative THEN <<a * x + b * y, c * x + d * y>>
       ELSE <<a * x + b * y + g.image_offset[1], c * x + d * y + g.image_offset[2]>>

\* update_point that takes an omitted coordinate as 0 whatever the point
update_point_zero(g, x, y) ==
    LET omitted == (x = None \/ y = None) /\ g.point = NoPoint
    IN [p |-> [g EXCEPT !.point = <<IF x = None THEN 0 ELSE x, IF y = None THEN 0 ELSE y>>],
        w |-> IF omitted THEN {"coordinate_omitted"} ELSE {},
        old |-> g.point]

\* GraphicsState.update_point: MM(x, None) is x; the result carries the
\* previous point
update_point(g, x, y) ==
    LET omitted == (x = None \/ y = None) /\ g.point = NoPoint
        g1 == IF omitted THEN [g EXCEPT !.point = <<0, 0>>] ELSE g
        nx == IF x = None THEN g1.point[1] ELSE x
        ny == IF y = None THEN g1.point[2] ELSE y
    IN [p |-> [g1 EXCEPT !.point = <<nx, ny>>],
        w |-> IF omitted THEN {"coordinate_omitted"} ELSE {},
        old |-> g.point]

\* GraphicsState.flash
flash(g, x, y) ==
    The({The({[p |-> g1, w |-> up.w,
               obj |-> GerberFlash(map_coord(g1, g1.point, FALSE), g1.aperture,
                                   g1.polarity_dark)]
              : g1 \in {WithMat(up.p)}})
         : up \in {update_point(g, x, y)}})

\* |sqrt(A) - sqrt(B)| < |sqrt(C) - sqrt(D)| on squared distances, in
\* integer arithmetic
RootDiffLess(A, B, C, D) ==
    LET L == A + B - C - D
        P == A * B
        Q == C * D
        M == 4 * P + 4 * Q - L * L
    IN IF L < 0 /\ P >= Q THEN TRUE
       ELSE IF L >= 0 /\ P <= Q THEN FALSE
       ELSE IF L >= 0 THEN M > 0 /\ 64 * P * Q < M * M
       ELSE M < 0 \/ 64 * P * Q > M * M

\* Arc.numeric_error of a is below that of b: the error is the difference
\* between the distances from the center to the start and to the end point
numeric_error_less(a, b) ==
    LET r1(o) == o.cx * o.cx + o.cy * o.cy
        r2(o) == (o.x1 + o.cx - o.x2) * (o.x1 + o.cx - o.x2)
                 + (o.y1 + o.cy - o.y2) * (o.y1 + o.cy - o.y2)
    IN RootDiffLess(r1(a), r2(a), r1(b), r2(b))

\* the sign of graphic_primitives.point_line_distance(l1, l2, p)
point_line_distance(l1, l2, p) ==
    (l2[1] - l1[1]) * (l1[2] - p[2]) - (l1[1] - p[1]) * (l2[2] - l1[2])

\* the multi_quadrant test of _create_arc with its sense reversed
create_arc_direct_swapped(multi_quadrant) == multi_quadrant

\* the test 'if not multi_quadrant' of _create_arc
create_arc_direct(multi_quadrant) == ~multi_quadrant

\* GraphicsState._create_arc on mapped points, with g's matrix computed;
\* the result is the object, NoObj for None, or err for the failed assert
create_arc(g, old_point, new_point, control_point, aperture, multi_quadrant) ==
    LET clockwise == g.interpolation_mode = "CIRCULAR_CW"
        ap == IF aperture THEN g.aperture ELSE NoAperture
        arc(cx, cy) == GerberArc(old_point, new_point, <<cx, cy>>, clockwise, ap, g.polarity_dark)
        \* position k comes before position n in sorted(arcs, key=numeric_error)
        before(arcs, k, n) ==
            \/ numeric_error_less(arcs[k], arcs[n])
            \/ ~numeric_error_less(arcs[n], arcs[k]) /\ k < n
        fits(a) ==
            (point_line_distance(old_point, new_point,
                                 <<old_point[1] + a.cx, old_point[2] + a.cy>>) > 0)
            = clockwise
        \* the arc chosen among the four candidates
        choice(arcs, fitting) ==
            IF fitting = {} THEN [obj |-> NoObj, err |-> "AssertionError"]
            ELSE [obj |-> arcs[CHOOSE k \in fitting :
                                  \A n \in fitting \ {k} : before(arcs, k, n)],
                  err |-> "none"]
        made(c) ==
            IF create_arc_direct(multi_quadrant)
            THEN [obj |-> arc(c[1], c[2]), err |-> "none"]
            ELSE IF old_point = new_point THEN [obj |-> NoObj, err |-> "none"]
            ELSE The({The({choice(arcs, fitting) : fitting \in {{k \in 1 .. 4 : fits(arcs[k])}}})
                      : arcs \in {<<arc(c[1], c[2]), arc(-c[1], c[2]),
                                    arc(c[1], -c[2]), arc(-c[1], -c[2])>>}})
    IN The({made(c) : c \in {map_coord(g, control_point, TRUE)}})

\* GraphicsState._create_line
create_line(g, old_point, new_point, aperture) ==
    GerberLine(old_point, new_point, IF aperture THEN g.aperture ELSE NoAperture,
               g.polarity_dark)

\* GraphicsState.interpolate; the result carries the object, NoObj for None
interpolate(g, x, y, i, j, aperture, multi_quadrant) ==
    LET w0 == IF g.point = NoPoint THEN {"D01_without_D02"} ELSE {}
        ii == IF i = None THEN 0 ELSE i
        jj == IF j = None THEN 0 ELSE j
        arc_result(g1, w1, made) ==
            [p |-> [g1 EXCEPT !.err = made.err],
             w |-> w1 \cup (IF i = None THEN {"missing_I"} ELSE {})
                      \cup (IF j = None THEN {"missing_J"} ELSE {}),
             obj |-> made.obj]
        \* the rest of the method, from the mapped old and new points on
        draw(g1, w1, old_point, new_point) ==
            IF aperture /\ g1.aperture = NoAperture
            THEN [p |-> [g1 EXCEPT !.err = "SyntaxError"], w |-> w1, obj |-> NoObj]
            ELSE IF g1.interpolation_mode = "LINEAR"
            THEN IF i # None \/ j # None
                 THEN [p |-> [g1 EXCEPT !.err = "SyntaxError"], w |-> w1, obj |-> NoObj]
                 ELSE [p |-> g1, w |-> w1,
                       obj |-> create_line(g1, old_point, new_point, aperture)]
            ELSE IF i = None /\ j = None
            THEN [p |-> g1, w |-> w1 \cup {"linear_in_arc_mode"},
                  obj |-> create_line(g1, old_point, new_point, aperture)]
            ELSE The({arc_result(g1, w1, made)
                      : made \in {create_arc(g1, old_point, new_point, <<ii, jj>>,
                                             aperture, multi_quadrant)}})
        mapped(up, g1) ==
            The({draw(g1, w0 \cup up.w, pts[1], pts[2])
                 : pts \in {<<map_coord(g1, up.old, FALSE), map_coord(g1, g1.point, FALSE)>>}})
        moved(up) == The({mapped(up, g1) : g1 \in {WithMat(up.p)}})
    IN The({moved(up)
            : up \in {update_point(IF g.point = NoPoint THEN [g EXCEPT !.point = <<0, 0>>]
                                   ELSE g, x, y)}})

\* appending a new object to target.objects
AppendObj(p, obj) == [p EXCEPT !.objects = Append(@, obj)]

\* the operation branches of GerberParser._parse_coord, on the parser
\* record p2 that holds the modes and the operation op of the statement
coord_operation(p2, m, op, w_op) ==
    LET w_arc == IF p2.interpolation_mode = "LINEAR" THEN {}
                 ELSE IF p2.multi_quadrant_mode = "None" THEN {"arc_without_G75"}
                 ELSE IF p2.multi_quadrant_mode = "True" THEN {"deprecated_G74"}
                 ELSE {}
        in_region == p2.current_region # NoRegion
    IN IF op \in {"D1", "D01"}
       THEN The({Res(IF ip.p.err # "none" \/ ip.obj = NoObj THEN ip.p
                     ELSE IF in_region
                     THEN [ip.p EXCEPT !.current_region = RegionAppend(@, ip.obj)]
                     ELSE AppendObj(ip.p, ip.obj),
                     w_op \cup w_arc \cup ip.w)
                 : ip \in {interpolate(p2, m.x, m.y, m.i, m.j, ~in_region,
                                       p2.multi_quadrant_mode = "True")}})
       ELSE IF op \in {"D2", "D02"}
       THEN The({Res(IF RegionBool(p2.current_region)
                     THEN [AppendObj(up.p, p2.current_region)
                              EXCEPT !.current_region = Region(p2.polarity_dark)]
                     ELSE up.p,
                     w_op \cup up.w)
                 : up \in {update_point(p2, m.x, m.y)}})
       ELSE IF op \in {"D3", "D03"}
       THEN IF ~in_region
            THEN The({Res(AppendObj(fl.p, fl.obj), w_op \cup fl.w) : fl \in {flash(p2, m.x, m.y)}})
            ELSE Raise(p2, "SyntaxError")
       ELSE Res(p2, w_op)

\* GerberParser._parse_coord.  The groups of the match are interpolation, x,
\* y, i, j and operation, "None"/None when absent; a group's text counts as
\* present whatever number it holds.
parse_coord(p, m) ==
    LET p1 == CASE m.interpolation = "G01" -> [p EXCEPT !.interpolation_mode = "LINEAR"]
                [] m.interpolation = "G02" -> [p EXCEPT !.interpolation_mode = "CIRCULAR_CW"]
                [] m.interpolation = "G03" -> [p EXCEPT !.interpolation_mode = "CIRCULAR_CCW"]
                [] m.interpolation = "G74" -> [p EXCEPT !.multi_quadrant_mode = "True"]
                [] m.interpolation = "G75" -> [p EXCEPT !.multi_quadrant_mode = "False"]
                [] OTHER -> p
        has_coord == m.x # None \/ m.y # None \/ m.i # None \/ m.j # None
        inherit == m.operation = "None" /\ has_coord
        siemens == "siemens" \in p.generator_hints
        op == IF ~inherit THEN m.operation
              ELSE IF p.last_operation = "D01" THEN "D01"
              ELSE p.last_operation
        w_op == IF ~inherit THEN {}
                ELSE IF p.last_operation = "D01" THEN {"no_operation_code"}
                ELSE {"ambiguous_coordinate"}
    IN IF m.interpolation \in {"G74", "G75"} /\ has_coord THEN Raise(p1, "SyntaxError")
       ELSE IF inherit /\ p.last_operation # "D01" /\ ~siemens THEN Raise(p1, "SyntaxError")
       ELSE The({coord_operation(p2, m, op, w_op) : p2 \in {[p1 EXCEPT !.last_operation = op]}})

\* _parse_aperture without the test of the aperture map
parse_aperture_unchecked(p, m) ==
    IF m.number < 10 THEN Raise(p, "SyntaxError")
    ELSE Res([p EXCEPT !.aperture = IF m.number \in DOMAIN p.aperture_map
                                    THEN p.aperture_map[m.number] ELSE NoAperture], {})

\* GerberParser._parse_aperture
parse_aperture(p, m) ==
    IF m.number < 10 THEN Raise(p, "SyntaxError")
    ELSE IF m.number \notin DOMAIN p.aperture_map \/ p.aperture_map[m.number] = NoAperture
         THEN Raise(p, "SyntaxError")
    ELSE Res([p EXCEPT !.aperture = p.aperture_map[m.number]], {})

\* GerberParser._parse_aperture_definition: shape C, or a name that is no
\* standard shape and no defined macro
parse_aperture_definition(p, m) ==
    IF m.shape = "C"
    THEN Res([p EXCEPT !.aperture_map[m.number] = CircleAperture(m.modifiers),
                       !.aperture_keys = IF \E k \in 1 .. Len(@) : @[k] = m.number
                                         THEN @ ELSE Append(@, m.number)], {})
    ELSE Raise(p, "ValueError")

\* GerberParser._parse_load_polarity
parse_load_polarity(p, m) == Res(store_polarity_dark(p, m.polarity = "D"), {})

\* GerberParser._parse_image_polarity
parse_image_polarity(p, m) ==
    Res(store_image_polarity(p, IF m.polarity = "POS" THEN "positive" ELSE "negative"),
        IF m.polarity # "POS" THEN {"deprecated_IP"} ELSE {})

\* GerberParser._parse_siemens_garbage
parse_siemens_garbage(p, m) == Res([p EXCEPT !.generator_hints = @ \cup {"siemens"}], {})

\* GerberParser._parse_region_start
parse_region_start(p, m) == Res([p EXCEPT !.current_region = Region(p.polarity_dark)], {})

\* _parse_region_end without the test for an open region
parse_region_end_lenient(p, m) ==
    Res(IF RegionBool(p.current_region)
        THEN [AppendObj(p, p.current_region) EXCEPT !.current_region = NoRegion]
        ELSE [p EXCEPT !.current_region = NoRegion], {})

\* _parse_region_end appending the region whether or not it holds a segment
parse_region_end_keep_empty(p, m) ==
    IF p.current_region = NoRegion THEN Raise(p, "SyntaxError")
    ELSE Res([AppendObj(p, p.current_region) EXCEPT !.current_region = NoRegion], {})

\* GerberParser._parse_region_end
parse_region_end(p, m) ==
    IF p.current_region = NoRegion THEN Raise(p, "SyntaxError")
    ELSE Res(IF RegionBool(p.current_region)
             THEN [AppendObj(p, p.current_region) EXCEPT !.current_region = NoRegion]
             ELSE [p EXCEPT !.current_region = NoRegion], {})

\* GerberParser._parse_eof
parse_eof(p, m) == Res([p EXCEPT !.eof_found = TRUE], {})

\* GerberParser._parse_ignored
parse_ignored(p, m) == Res(p, {})

\* GerberParser._parse_comment; the comment is a sequence of words and
\* blanks, a word standing for the text the method looks for
parse_gerber_comment(p, m) ==
    LET cmt == Strip(m.comment)
        starts(word) == Len(cmt) > 0 /\ cmt[1] = word
        has(word) == \E k \in 1 .. Len(cmt) : cmt[k] = word
    IN IF starts("File Origin:") /\ has("Allegro")
       THEN Res([p EXCEPT !.generator_hints = @ \cup {"allegro"}], {})
       ELSE IF starts("Layer:")
       THEN IF has("BOARD GEOMETRY")
            THEN Res([p EXCEPT !.layer_hints = @
                        \cup (IF has("SOLDERMASK_TOP") THEN {"top mask"} ELSE {})
                        \cup (IF has("SOLDERMASK_BOTTOM") THEN {"bottom mask"} ELSE {})
                        \cup (IF has("PASTEMASK_TOP") THEN {"top paste"} ELSE {})
                        \cup (IF has("PASTEMASK_BOTTOM") THEN {"bottom paste"} ELSE {})
                        \cup (IF has("SILKSCREEN_TOP") THEN {"top silk"} ELSE {})
                        \cup (IF has("SILKSCREEN_BOTTOM") THEN {"bottom silk"} ELSE {})], {})
            ELSE IF has("ETCH")
            THEN Res([p EXCEPT !.layer_hints = @ \cup {"copper"}], {})
            ELSE Res(p, {})
       ELSE IF starts("Mentor Graphics")
       THEN Res([p EXCEPT !.generator_hints = @ \cup {"siemens"}], {})
       ELSE Res([p EXCEPT !.comments = Append(@, cmt)], {})

\* GerberParser._parse_attribute; the groups are eagle_garbage, type, name
\* and value
parse_attribute(p, m) ==
    LET stored == CASE m.type = "TF" -> [p EXCEPT !.file_attrs[m.name] = Split(m.value)]
                    [] m.type = "TO" -> [p EXCEPT !.object_attrs[m.name] = Split(m.value)]
                    [] m.type = "TA" -> [p EXCEPT !.aperture_attrs[m.name] = Split(m.value)]
        software == stored.file_attrs[".GenerationSoftware"]
        eagle == (\E k \in 1 .. Len(software) : software[k] = "EAGLE") \/ m.eagle_garbage
    IN IF m.type = "TD"
       THEN IF m.value # "" THEN Raise(p, "SyntaxError")
            ELSE IF m.name = ""
            THEN Res([p EXCEPT !.object_attrs = [n \in AttrNames |-> NoAttr],
                               !.aperture_attrs = [n \in AttrNames |-> NoAttr]], {})
            ELSE IF p.file_attrs[m.name] # NoAttr THEN Raise(p, "SyntaxError")
            ELSE IF p.object_attrs[m.name] # NoAttr
            THEN Res([p EXCEPT !.object_attrs[m.name] = NoAttr], {})
            ELSE IF p.aperture_attrs[m.name] # NoAttr
            THEN Res([p EXCEPT !.aperture_attrs[m.name] = NoAttr], {})
            ELSE Raise(p, "SyntaxError")
       ELSE Res(IF eagle THEN [stored EXCEPT !.generator_hints = @ \cup {"eagle"}] ELSE stored,
                {})

\* the else branch of the pattern loop of GerberParser.parse: no pattern
\* matches the command
parse_unknown(p, m) ==
    Res([p EXCEPT !.comments = Append(@, <<"Unknown statement found:", m.text>>)],
        {"unknown_statement"})

\* FileSettings(): the default settings.  Unit and number format have
\* known defaults; ExcellonParser.__init__ passes number_format=(None, None)
\* to start from an unknown number format.
FileSettings ==
    [unit |-> "mm", notation |-> "absolute", zeros |-> "None", number_format |-> <<2, 5>>]

\* GerberParser._parse_format_spec: the groups x and y are two digits each
parse_format_spec(p, m) ==
    LET fs == [p.file_settings EXCEPT
                 !.zeros = IF m.zero = "T" THEN "trailing" ELSE "leading",
                 !.notation = IF m.notation = "I" THEN "incremental" ELSE "absolute"]
    IN IF m.x # m.y THEN Raise([p EXCEPT !.file_settings = fs], "SyntaxError")
       ELSE Res([p EXCEPT !.file_settings = [fs EXCEPT !.number_format = m.x]], {})

\* GerberParser._parse_unit_mode
parse_unit_mode(p, m) ==
    Res([p EXCEPT !.file_settings.unit = IF m.unit = "MM" THEN "mm" ELSE "inch"], {})

\* GerberParser._parse_aperture_macro: the macro is stored under its name,
\* in a dictionary that no statement followed reads
parse_aperture_macro(p, m) == Res(p, {})

\* GerberParser._parse_old_notation: 'G90' or 'G91'
parse_old_notation(p, m) ==
    Res([p EXCEPT !.file_settings.notation = IF m.mode = "G90" THEN "absolute" ELSE "incremental",
                  !.comments = Append(@, "Replaced deprecated notation mode statement")],
        {"deprecated_notation"})

\* GerberParser._parse_offset: the offset is stored in the attribute offset
\* of the graphics state, which nothing reads
parse_offset(p, m) == Res(p, {})

\* GerberParser._parse_image_rotation; GraphicsState.__setattr__ raises
\* ValueError on a rotation other than 0, 90, 180 and 270
parse_image_rotation(p, m) ==
    IF m.rotation \notin {0, 90, 180, 270} THEN Raise(p, "ValueError")
    ELSE Res([p EXCEPT !.image_rotation = m.rotation],
             IF m.rotation # 0 THEN {"deprecated_IR"} ELSE {})

\* the pair of flags _parse_mirror_image reads from the groups of MI: an
\* omitted A is 0, an omitted B is 1
mirror_flags(m) ==
    <<(IF m.ma = None THEN 0 ELSE m.ma) # 0, (IF m.mb = None THEN 1 ELSE m.mb) # 0>>

\* GerberParser._parse_mirror_image
parse_mirror_image(p, m) ==
    Res([p EXCEPT !.image_mirror = mirror_flags(m)],
        IF mirror_flags(m) # <<FALSE, FALSE>> THEN {"deprecated_MI"} ELSE {})

\* the pair of factors _parse_scale_factor reads from the groups of SF
scale_factors(m) == <<IF m.sa = None THEN 1 ELSE m.sa, IF m.sb = None THEN 1 ELSE m.sb>>

\* GerberParser._parse_scale_factor: the factors are stored in the attribute
\* scale_factor of the graphics state, which nothing reads
parse_scale_factor(p, m) ==
    Res(p, IF scale_factors(m) # <<1, 1>> THEN {"deprecated_SF"} ELSE {})

\* the handler of the first statement pattern that matches the command
GerberHandle(h, p, m) ==
    CASE h = "region_start" -> parse_region_start(p, m)
      [] h = "region_end" -> parse_region_end(p, m)
      [] h = "coord" -> parse_coord(p, m)
      [] h = "aperture" -> parse_aperture(p, m)
      [] h = "load_polarity" -> parse_load_polarity(p, m)
      [] h = "image_polarity" -> parse_image_polarity(p, m)
      [] h = "aperture_definition" -> parse_aperture_definition(p, m)
      [] h = "siemens_garbage" -> parse_siemens_garbage(p, m)
      [] h = "eof" -> parse_eof(p, m)
      [] h = "ignored" -> parse_ignored(p, m)
      [] h = "attribute" -> parse_attribute(p, m)
      [] h = "comment" -> parse_gerber_comment(p, m)
      [] h = "unknown" -> parse_unknown(p, m)
      [] h = "format_spec" -> parse_format_spec(p, m)
      [] h = "unit_mode" -> parse_unit_mode(p, m)
      [] h = "aperture_macro" -> parse_aperture_macro(p, m)
      [] h = "old_notation" -> parse_old_notation(p, m)
      [] h = "offset" -> parse_offset(p, m)
      [] h = "image_rotation" -> parse_image_rotation(p, m)
      [] h = "mirror_image" -> parse_mirror_image(p, m)
      [] h = "scale_factor" -> parse_scale_factor(p, m)

\* the loop of GerberParser.parse leaving out the handler of a command
\* that follows the end-of-file statement
parse_command_skip_after_eof(p, h, m) ==
    IF p.eof_found THEN [p |-> p, w |-> {"data_after_eof"}]
    ELSE The({[p |-> IF res.p.err # "none" THEN [res.p EXCEPT !.err = "SyntaxError"]
                     ELSE res.p,
               w |-> res.w]
              : res \in {GerberHandle(h, p, m)}})

\* one iteration of the loop of GerberParser.parse on a non-empty command:
\* an exception of the handler leaves parse as a SyntaxError
parse_command(p, h, m) ==
    The({[p |-> IF res.p.err # "none" THEN [res.p EXCEPT !.err = "SyntaxError"] ELSE res.p,
          w |-> res.w \cup (IF p.eof_found THEN {"data_after_eof"} ELSE {})]
         : res \in {GerberHandle(h, p, m)}})

\* the parser is still reading commands: no exception has ended the parse;
\* the model follows inputs that produce at most MaxObjs objects and regions
\* of at most MaxSegs segments
GbRunning == run = "gerber" /\ gb.err = "none" /\ Len(gb.objects) < MaxObjs

\* the names of GerberParser.STATEMENT_REGEXES in the order of declaration
STATEMENT_REGEXES ==
    <<"region_start", "region_end", "coord", "aperture", "allegro_format_spec",
      "unit_mode", "format_spec", "allegro_legacy_params", "load_polarity",
      "load_name", "offset", "include_file", "image_name", "axis_selection",
      "image_polarity", "image_rotation", "mirror_image", "scale_factor",
      "aperture_definition", "aperture_macro", "siemens_garbage", "old_unit",
      "old_notation", "eof", "ignored", "attribute", "comment">>

\* the command texts followed through the pattern loop
Lines ==
    {"D02", "D10", "M01", "M02", "G04 #@! %TF.AperFunction,a,b", "G04 hi", "G36", "FOO",
     "ADD10C,1"}

\* the attribute commands followed through the pattern loop
AttrLines ==
    {"TF.GenerationSoftware,EAGLE", "TA.AperFunction,a,b", "TO.AperFunction,a,b",
     "TO.AperFunction,EAGLE", "TD", "TD.AperFunction", "TD.AperFunction,", "TD.GenerationSoftware,"}

\* what an attribute command is written from: the command code, the
\* attribute name, whether a comma follows, and the text after the comma
AttributeText(line) ==
    CASE line = "TF.GenerationSoftware,EAGLE" ->
            [type |-> "TF", name |-> ".GenerationSoftware", comma |-> TRUE, value |-> "EAGLE"]
      [] line = "TA.AperFunction,a,b" ->
            [type |-> "TA", name |-> ".AperFunction", comma |-> TRUE, value |-> "a,b"]
      [] line = "TO.AperFunction,a,b" ->
            [type |-> "TO", name |-> ".AperFunction", comma |-> TRUE, value |-> "a,b"]
      [] line = "TO.AperFunction,EAGLE" ->
            [type |-> "TO", name |-> ".AperFunction", comma |-> TRUE, value |-> "EAGLE"]
      [] line = "TD" -> [type |-> "TD", name |-> "", comma |-> FALSE, value |-> ""]
      [] line = "TD.AperFunction" ->
            [type |-> "TD", name |-> ".AperFunction", comma |-> FALSE, value |-> ""]
      [] line = "TD.AperFunction," ->
            [type |-> "TD", name |-> ".AperFunction", comma |-> TRUE, value |-> ""]
      [] line = "TD.GenerationSoftware," ->
            [type |-> "TD", name |-> ".GenerationSoftware", comma |-> TRUE, value |-> ""]

\* le_regex.match(line): the patterns of STATEMENT_REGEXES that match the
\* command text, each tried at the start of the text
Matching(line) ==
    CASE line = "D02" -> {"coord", "aperture"}
      [] line = "D10" -> {"aperture"}
      [] line = "M01" -> {"eof", "ignored"}
      [] line = "M02" -> {"eof"}
      [] line = "G04 #@! %TF.AperFunction,a,b" -> {"attribute", "comment"}
      [] line = "G04 hi" -> {"comment"}
      [] line = "G36" -> {"region_start"}
      [] line = "ADD10C,1" -> {"aperture_definition"}
      [] line \in AttrLines ->
            \* (TF|TA|TO|TD), then a name of one character or more, then a comma
            IF AttributeText(line).name # "" /\ AttributeText(line).comma
            THEN {"attribute"} ELSE {}
      [] OTHER -> {}

\* the groups of the match of pattern name on the command text; for the
\* else branch of the loop, the text itself
Groups(name, line) ==
    CASE name = "coord" /\ line = "D02" ->
            [interpolation |-> "None", x |-> None, y |-> None, i |-> None, j |-> None,
             operation |-> "D02"]
      [] name = "aperture" /\ line = "D02" -> [number |-> 2]
      [] name = "aperture" /\ line = "D10" -> [number |-> 10]
      [] name = "attribute" /\ line = "G04 #@! %TF.AperFunction,a,b" ->
            [eagle_garbage |-> TRUE, type |-> "TF", name |-> ".AperFunction", value |-> "a,b"]
      [] name = "comment" /\ line = "G04 #@! %TF.AperFunction,a,b" ->
            [comment |-> <<" ", "#@! %TF.AperFunction,a,b">>]
      [] name = "comment" /\ line = "G04 hi" -> [comment |-> <<" ", "hi">>]
      [] name = "aperture_definition" /\ line = "ADD10C,1" ->
            [number |-> 10, shape |-> "C", modifiers |-> 1]
      [] name = "attribute" /\ line \in AttrLines ->
            [eagle_garbage |-> FALSE, type |-> AttributeText(line).type,
             name |-> AttributeText(line).name, value |-> AttributeText(line).value]
      [] name = "unknown" -> [text |-> line]
      [] OTHER -> << >>

\* the pattern loop trying the patterns in reverse order
RECURSIVE last_match(_, _)
last_match(line, k) ==
    IF k > Len(STATEMENT_REGEXES) THEN "unknown"
    ELSE IF last_match(line, k + 1) # "unknown" THEN last_match(line, k + 1)
    ELSE IF STATEMENT_REGEXES[k] \in Matching(line) THEN STATEMENT_REGEXES[k]
    ELSE "unknown"

\* the pattern loop of GerberParser.parse from the k-th pattern on: the
\* name of the first pattern that matches, "unknown" for the else branch
RECURSIVE first_match(_, _)
first_match(line, k) ==
    IF k > Len(STATEMENT_REGEXES) THEN "unknown"
    ELSE IF STATEMENT_REGEXES[k] \in Matching(line) THEN STATEMENT_REGEXES[k]
    ELSE first_match(line, k + 1)

\* one command read by GerberParser.parse, while the file has produced
\* fewer than max_objs objects, regions of at most max_segs segments and at
\* most MaxComments comments.  last records the command, its warnings,
\* whether an IPNEG has been read and whether an AD command has assigned an
\* aperture number that the aperture map already held.
GbRead(item, h, m, max_objs, max_segs) ==
    /\ run = "gerber" /\ gb.err = "none" /\ ~gb.done /\ Len(gb.objects) < max_objs
    /\ \E r \in {parse_command(gb, h, m)} :
       /\ r.p.current_region # NoRegion => Len(r.p.current_region.arc_centers) <= max_segs
       /\ Len(r.p.comments) <= MaxComments
       /\ gb' = r.p
       /\ last' = [item |-> item, h |-> h, w |-> r.w, m |-> m,
                   neg_seen |-> last.neg_seen
                                \/ (h = "image_polarity" /\ m.polarity = "NEG"),
                   redefined |-> last.redefined
                                 \/ (/\ h = "aperture_definition" /\ r.p.err = "none"
                                     /\ \E k \in 1 .. Len(gb.aperture_keys) :
                                            gb.aperture_keys[k] = m.number)]
       /\ UNCHANGED <<run, ex, tk, files>>

\* a command given by the pattern that matches it first and its groups
GbStep(h, m, max_objs, max_segs) == GbRead(h, h, m, max_objs, max_segs)

GbLine(h, m) == GbStep(h, m, MaxObjs, MaxSegs)

\* parse leaving the target's aperture list as the constructor made it
parse_finish_keep_apertures(p) ==
    Res([p EXCEPT !.done = TRUE], IF ~p.eof_found THEN {"missing_eof"} ELSE {})

\* the statements of GerberParser.parse that follow the command loop
parse_finish(p) ==
    Res([p EXCEPT !.apertures = [k \in 1 .. Len(p.aperture_keys) |->
                                    p.aperture_map[p.aperture_keys[k]]],
                  !.done = TRUE],
        IF ~p.eof_found THEN {"missing_eof"} ELSE {})

\* the input ends: the command loop is left and parse returns
GbEnd ==
    /\ run = "gerber" /\ gb.err = "none" /\ ~gb.done
    /\ \E r \in {parse_finish(gb)} :
       /\ gb' = r.p
       /\ last' = [item |-> "end", h |-> "end", w |-> r.w, m |-> << >>,
                   neg_seen |-> last.neg_seen, redefined |-> last.redefined]
       /\ UNCHANGED <<run, ex, tk, files>>

\* X/Y and I/J data of the coordinate statements of the input
GXY == {<<None, None>>, <<0, 0>>, <<1, 1>>}
GIJ == {<<None, None>>, <<1, 0>>, <<None, 1>>}

\* a coordinate statement, drawn from the given codes and data
CoordCmd(Gs, XYs, IJs, Ops) ==
    \E m \in {[interpolation |-> g, x |-> xy[1], y |-> xy[2],
                i |-> ij[1], j |-> ij[2], operation |-> op] :
                   g \in Gs, xy \in XYs, ij \in IJs, op \in Ops} :
        GbLine("coord", m)

CmdG36 == GbLine("region_start", << >>)
CmdG37 == GbLine("region_end", << >>)
CmdCoord == CoordCmd({"None", "G01", "G02", "G03"}, GXY, GIJ, {"None", "D01", "D02", "D03"})
CmdQuadrantMode == CoordCmd({"G74", "G75"}, {<<None, None>>, <<0, None>>}, {<<None, None>>}, {"None"})
CmdAperture == \E n \in SelNumbers : GbLine("aperture", [number |-> n])
CmdApertureDefinition ==
    \E m \in {[number |-> n, shape |-> sh, modifiers |-> 1] :
                   n \in ApNumbers, sh \in {"C", "FOO"}} :
        GbLine("aperture_definition", m)
CmdLP == \E pol \in {"D", "C"} : GbLine("load_polarity", [polarity |-> pol])
CmdIP == \E pol \in {"POS", "NEG"} : GbLine("image_polarity", [polarity |-> pol])
CmdICAS == GbLine("siemens_garbage", << >>)
CmdM02 == GbLine("eof", << >>)
CmdUnknown == GbLine("unknown", [text |-> "FOO"])
CmdLinearCoord == CoordCmd({"None"}, GXY, {<<None, None>>}, {"None", "D01", "D02", "D03"})

\* a command text taken through the pattern loop
GbReadLine(line) ==
    /\ run = "gerber"
    /\ \E h \in {first_match(line, 1)} :
          \E m \in {Groups(h, line)} : GbRead(line, h, m, DeepObjs, DeepSegs)

ReadLine == \E line \in Lines : GbReadLine(line)

NextD == ReadLine \/ GbEnd

ReadAttribute == \E line \in AttrLines : GbReadLine(line)

NextA == ReadAttribute \/ GbEnd

\* the commands of the operation inheritance: linear coordinate statements
\* with the operation written in full, written short or left out, regions
\* and the Siemens marker
InhCoord ==
    \E m \in {[interpolation |-> "None", x |-> xy[1], y |-> xy[2],
                i |-> None, j |-> None, operation |-> op] :
                   xy \in {<<None, None>>, <<1, 1>>},
                   op \in {"None", "D1", "D01", "D02", "D03"}} :
        GbStep("coord", m, DeepObjs, DeepSegs)
InhG36 == GbStep("region_start", << >>, DeepObjs, DeepSegs)
InhG37 == GbStep("region_end", << >>, DeepObjs, DeepSegs)
InhICAS == GbStep("siemens_garbage", << >>, DeepObjs, DeepSegs)

NextI == InhCoord \/ InhG36 \/ InhG37 \/ InhICAS

\* the commands of aperture bookkeeping: circle definitions of two
\* diameters under one number, selections, flashes
FlDefine ==
    \E m \in {[number |-> n, shape |-> "C", modifiers |-> d] :
                   n \in ApNumbers, d \in {1, 2}} :
        GbStep("aperture_definition", m, DeepObjs, DeepSegs)
FlSelect == \E m \in {[number |-> n] : n \in SelNumbers} : GbStep("aperture", m, DeepObjs, DeepSegs)
FlFlash ==
    \E m \in {[interpolation |-> "None", x |-> xy[1], y |-> xy[2],
                i |-> None, j |-> None, operation |-> "D03"] :
                   xy \in {<<0, 0>>, <<1, 1>>}} :
        GbStep("coord", m, DeepObjs, DeepSegs)

NextF == FlDefine \/ FlSelect \/ FlFlash \/ GbEnd

\* drawing commands: regions, interpolation, flashes, apertures
NextG ==
    \/ CmdG36 \/ CmdG37 \/ CmdCoord \/ CmdQuadrantMode
    \/ CmdAperture \/ CmdApertureDefinition

\* polarity and file-level commands, with linear coordinate statements
NextP ==
    \/ CmdLP \/ CmdIP \/ CmdICAS \/ CmdM02 \/ CmdUnknown
    \/ CmdG36 \/ CmdG37 \/ CmdLinearCoord

\* polarity and file-level commands up to the end of the input
NextE == NextP \/ GbEnd

\* ========================================================================
\* GerberFile.merge (rs274x.py)
\* ========================================================================
\* files.a and files.b are two GerberFile objects (self and other): apertures and
\* objects are lists of handles, comments a list, import_settings a value
\* or None.  The handles refer to the records the files share: files.aps the
\* apertures (canonical text, macro handle or NoMacro), files.mac the aperture
\* macros (canonical text, name), files.objs the aperture handle of each
\* graphic object (None for an object without an aperture attribute).
\* files.merges counts the merges done.

NoMacro == 0
\* GenericMacros.circle, .rect, .obround, .polygon and two macros of the input
GenericIds == <<1, 2, 3, 4>>
\* the argument of merge that stands for the file b
Other == 2
UserMacroIds == {5, 6}
MacroIds == 1 .. 6
ApIdsA == 1 .. MaxAps
ApIdsB == (MaxAps + 1) .. (2 * MaxAps)
ApIds == ApIdsA \cup ApIdsB
\* the object of a and the object of b
ObjIds == {1, 2}
Texts == {"t1", "t2"}

\* Aperture.to_gerber(settings): the canonical text of an aperture
to_gerber(aps, ap) == aps[ap].text

\* ApertureMacro.to_gerber(): the canonical text of a macro
macro_to_gerber(mac, m) == mac[m].text

\* membership of a handle in a list
InList(L, x) == \E k \in 1 .. Len(L) : L[k] = x

\* the loop over self.apertures + other.apertures keeping every aperture
RECURSIVE keep_all_apertures(_, _, _, _, _)
keep_all_apertures(aps, L, k, new_apertures, replace_apertures) ==
    IF k > Len(L)
    THEN [new_apertures |-> new_apertures, replace_apertures |-> replace_apertures]
    ELSE keep_all_apertures(aps, L, k + 1,
                            IF InList(new_apertures, L[k]) THEN new_apertures
                            ELSE Append(new_apertures, L[k]),
                            replace_apertures)

\* the loop over self.apertures + other.apertures.  new_apertures is the
\* list of the dictionary's values in insertion order, its keys are their
\* texts; replace_apertures maps a handle to its survivor, None where the
\* dictionary has no entry
RECURSIVE dedup_apertures(_, _, _, _, _)
dedup_apertures(aps, L, k, new_apertures, replace_apertures) ==
    IF k > Len(L)
    THEN [new_apertures |-> new_apertures, replace_apertures |-> replace_apertures]
    ELSE LET ap == L[k]
             gbr == to_gerber(aps, ap)
             same == {j \in 1 .. Len(new_apertures) : to_gerber(aps, new_apertures[j]) = gbr}
         IN IF same = {}
            THEN dedup_apertures(aps, L, k + 1, Append(new_apertures, ap), replace_apertures)
            ELSE dedup_apertures(aps, L, k + 1, new_apertures,
                                 [replace_apertures EXCEPT
                                    ![ap] = new_apertures[CHOOSE j \in same : TRUE]])

\* the loop over self.objects that leaves every object as it is
keep_object_apertures(objs, L, k, replace_apertures) == objs

\* the loop over self.objects: an object whose aperture has an entry in
\* replace_apertures gets the survivor
RECURSIVE replace_object_apertures(_, _, _, _)
replace_object_apertures(objs, L, k, replace_apertures) ==
    IF k > Len(L) THEN objs
    ELSE LET cur == objs[L[k]]
         IN replace_object_apertures(
                IF cur # None /\ replace_apertures[cur] # None
                THEN [objs EXCEPT ![L[k]] = replace_apertures[cur]] ELSE objs,
                L, k + 1, replace_apertures)

\* the loop over new_apertures.values() that shares macros of equal text;
\* macros is the list of the dictionary's values in insertion order
RECURSIVE dedup_macros(_, _, _, _, _)
dedup_macros(aps, mac, L, k, macros) ==
    IF k > Len(L) THEN [aps |-> aps, macros |-> macros]
    ELSE IF aps[L[k]].macro = NoMacro THEN dedup_macros(aps, mac, L, k + 1, macros)
    ELSE LET macro_grb == macro_to_gerber(mac, aps[L[k]].macro)
             same == {j \in 1 .. Len(macros) : macro_to_gerber(mac, macros[j]) = macro_grb}
         IN IF same # {}
            THEN dedup_macros([aps EXCEPT ![L[k]].macro = macros[CHOOSE j \in same : TRUE]],
                              mac, L, k + 1, macros)
            ELSE dedup_macros(aps, mac, L, k + 1, Append(macros, aps[L[k]].macro))

\* the while loop: the first of name2, name3, ... that is not in seen
RECURSIVE new_name(_, _, _)
new_name(name, i, seen_macro_names) ==
    IF (name \o ToString(i)) \in seen_macro_names
    THEN new_name(name, i + 1, seen_macro_names)
    ELSE name \o ToString(i)

\* the loop over macros.values() that renames every macro
RECURSIVE rename_macros(_, _, _, _)
rename_macros(mac, macros, k, seen_macro_names) ==
    IF k > Len(macros) THEN mac
    ELSE \* bound once: the name chosen for this macro
         The({rename_macros([mac EXCEPT ![macros[k]].name = n], macros, k + 1,
                            seen_macro_names \cup {n})
              : n \in {new_name(mac[macros[k]].name, 2, seen_macro_names)}})

\* GerberFile.merge: self is f.a; other is Other for f.b, or None
merge(f, other) ==
    IF other = None THEN f
    ELSE The({The({The({
            [f EXCEPT !.a.import_settings = None,
                      !.a.comments = f.a.comments \o f.b.comments,
                      !.a.apertures = d.new_apertures,
                      !.a.objects = objects,
                      !.objs = replace_object_apertures(f.objs, objects, 1, d.replace_apertures),
                      !.aps = dm.aps,
                      !.mac = rename_macros(f.mac, dm.macros, 1, {}),
                      !.merges = f.merges + 1]
            : dm \in {dedup_macros(f.aps, f.mac, d.new_apertures, 1, GenericIds)}})
          : objects \in {f.a.objects \o f.b.objects}})
        : d \in {dedup_apertures(f.aps, f.a.apertures \o f.b.apertures, 1, << >>,
                                 [ap \in ApIds |-> None])}})

\* the pairs of files a merge starts from: a holds the first na apertures
\* of ApIdsA and b the first nb of ApIdsB, each aperture with one of two
\* texts; the first aperture of a may be an instance of macro 5 and the
\* first of b an instance of macro 6; the two macros carry the same name,
\* and macro 6 has the text of macro 5, a text of its own or the text of
\* the generic circle; each file holds up to one object, whose aperture is
\* in the file's aperture list, or absent for the object of b
MergeInputs ==
    {[aps |-> [ap \in ApIds |->
                 [text |-> text[ap],
                  macro |-> IF ap = 1 THEN m1 ELSE IF ap = MaxAps + 1 THEN m3 ELSE NoMacro]],
      mac |-> [m \in MacroIds |->
                    CASE m = 1 -> [text |-> "circle", name |-> "GNC"]
                      [] m = 2 -> [text |-> "rect", name |-> "GNR"]
                      [] m = 3 -> [text |-> "obround", name |-> "GNO"]
                      [] m = 4 -> [text |-> "polygon", name |-> "GNP"]
                      [] m = 5 -> [text |-> "m1", name |-> "M"]
                      [] m = 6 -> [text |-> t6, name |-> "M"]],
      objs |-> [o \in ObjIds |-> IF o = 1 THEN oa ELSE ob],
      a |-> [apertures |-> [k \in 1 .. n[1] |-> k],
             objects |-> IF oa = 0 THEN << >> ELSE <<1>>,
             comments |-> <<"ca">>, import_settings |-> 1],
      b |-> [apertures |-> [k \in 1 .. n[2] |-> MaxAps + k],
             objects |-> IF ob = 0 THEN << >> ELSE <<2>>,
             comments |-> <<"cb">>, import_settings |-> 1],
      merges |-> 0]
     : n \in (0 .. MaxAps) \X (0 .. MaxAps),
       oa \in 0 .. MaxAps, ob \in {None} \cup (0 .. 2 * MaxAps),
       text \in [ApIds -> Texts],
       m1 \in {NoMacro, 5}, m3 \in {NoMacro, 6}, t6 \in {"m1", "m2", "circle"}}

\* the inputs above that a program can build: the object of a file refers
\* to an aperture of that file, and what no file holds has one value
WellFormed(f) ==
    /\ f.objs[1] = 0 \/ f.objs[1] \in 1 .. Len(f.a.apertures)
    /\ f.objs[2] \in {0, None} \/ f.objs[2] \in (MaxAps + 1) .. (MaxAps + Len(f.b.apertures))
    /\ \A ap \in ApIds :
          (~InList(f.a.apertures, ap) /\ ~InList(f.b.apertures, ap))
             => f.aps[ap] = [text |-> "t1", macro |-> NoMacro]
    /\ (\A ap \in ApIds : f.aps[ap].macro # 6) => f.mac[6].text = "m1"

\* a.merge(b)
Merge ==
    /\ run = "merge" /\ files.merges < MaxMerges
    /\ files' = merge(files, Other)
    /\ last' = [item |-> "merge", h |-> "merge", w |-> {}, before |-> files]
    /\ UNCHANGED <<run, ex, tk, gb>>

\* a.merge(None)
MergeNone ==
    /\ run = "merge" /\ last.item # "merge_none"
    /\ files' = merge(files, None)
    /\ last' = [item |-> "merge_none", h |-> "merge", w |-> {}, before |-> files]
    /\ UNCHANGED <<run, ex, tk, gb>>

NextM == Merge \/ MergeNone

\* ========================================================================
\* ExcellonFile.split_by_plating and ExcellonFile.bounds (excellon.py)
\* ========================================================================
\* files.input is an ExcellonFile: objects a list of graphic objects (each
\* with its handle id, the plated attribute of its tool and its bounding
\* box), comments a list, import_settings a settings value or None.
\* files.result is what the call returned, files.err the exception raised.

\* tool.plated: True (1), False (0), or None when the plating is not known
Plating == {1, 0, None}

\* the truth value Python gives obj.plated
Truthy(v) == v = 1

\* GerberObject.bounding_box(): ((x_min, y_min), (x_max, y_max))
Boxes == {<<<<x, y>>, <<x + 1, y + 1>>>> : x \in 0 .. 1, y \in 0 .. 1}
bounding_box(obj) == obj.box

\* sequences over S of length n
SeqsOfLen(S, n) == [1 .. n -> S]

\* list.copy() / FileSettings.copy(): a new object of equal content; calling
\* copy on None raises AttributeError
copy(v) == v

\* [ obj for obj in objects if keep(obj) ], for keep = plated or not plated
RECURSIVE filter_plated(_, _)
filter_plated(objects, want) ==
    IF objects = << >> THEN << >>
    ELSE IF Truthy(Head(objects).plated) = want
         THEN <<Head(objects)>> \o filter_plated(Tail(objects), want)
         ELSE filter_plated(Tail(objects), want)

\* ExcellonFile.__init__
ExcellonFile(objects, comments, import_settings, filename) ==
    [objects |-> objects, comments |-> comments, import_settings |-> import_settings,
     filename |-> filename]

\* ExcellonFile.split_by_plating; the result is <<nonplated, plated>>
split_by_plating(f) ==
    IF f.import_settings = None THEN [err |-> "AttributeError", result |-> None]
    ELSE [err |-> "none",
          result |-> <<ExcellonFile(filter_plated(f.objects, FALSE), copy(f.comments),
                                    copy(f.import_settings), f.filename),
                       ExcellonFile(filter_plated(f.objects, TRUE), copy(f.comments),
                                    copy(f.import_settings), f.filename)>>]

Min(a, b) == IF a < b THEN a ELSE b
Max(a, b) == IF a > b THEN a ELSE b

\* the loop of ExcellonFile.bounds: each pass reads the bounding box of
\* self.objects[0]
RECURSIVE bounds_loop(_, _, _)
bounds_loop(objects, k, acc) ==
    IF k > Len(objects) THEN acc
    ELSE LET b == bounding_box(objects[1])
         IN bounds_loop(objects, k + 1,
                        <<<<Min(acc[1][1], b[1][1]), Min(acc[1][2], b[1][2])>>,
                          <<Max(acc[2][1], b[2][1]), Max(acc[2][2], b[2][2])>>>>)

\* ExcellonFile.bounds
bounds(f) ==
    IF f.objects = << >> THEN None
    ELSE bounds_loop(f.objects, 1, bounding_box(f.objects[1]))

\* the files split_by_plating is called on: up to MaxFileObjs objects of any
\* plating, with or without comments and import settings
SplitInputs ==
    {[input |-> ExcellonFile([k \in 1 .. Len(pl) |->
                                 [id |-> k, plated |-> pl[k], box |-> <<<<0, 0>>, <<1, 1>>>>]],
                             comments, settings, "f.drl"),
      result |-> None, err |-> "none"]
     : pl \in UNION {SeqsOfLen(Plating, m) : m \in 0 .. MaxFileObjs},
       comments \in {<< >>, <<"c">>}, settings \in {None, 1}}

\* the files bounds is read from: up to MaxFileObjs objects of any bounding box
BoundsInputs ==
    {[input |-> ExcellonFile([k \in 1 .. Len(bx) |-> [id |-> k, plated |-> 1, box |-> bx[k]]],
                             << >>, 1, "f.drl"),
      result |-> None, err |-> "none"]
     : bx \in UNION {SeqsOfLen(Boxes, m) : m \in 0 .. MaxFileObjs}}

\* nonplated, plated = f.split_by_plating()
SplitFile ==
    /\ run = "split" /\ last.item = "none"
    /\ \E r \in {split_by_plating(files.input)} :
          files' = [files EXCEPT !.result = r.result, !.err = r.err]
    /\ last' = [item |-> "split_by_plating", h |-> "split_by_plating", w |-> {}, before |-> files]
    /\ UNCHANGED <<run, ex, tk, gb>>

\* f.bounds
FileBounds ==
    /\ run = "bounds" /\ last.item = "none"
    /\ files' = [files EXCEPT !.result = bounds(files.input)]
    /\ last' = [item |-> "bounds", h |-> "bounds", w |-> {}, before |-> files]
    /\ UNCHANGED <<run, ex, tk, gb>>

NextS == SplitFile
NextB == FileBounds

\* ========================================================================
\* Gerber output (rs274x.py GerberFile.generate_statements, GraphicsState
\* helpers for gerber generation; graphic_objects.py to_statements)
\* ========================================================================
\* A statement of the stream is a record with its kind and what it carries.
\* The output-side GraphicsState is a record of the fields the helpers read
\* and write.  Objects carry their aperture as the aperture's value; the
\* aperture lists followed hold pairwise different apertures, so that the
\* key id(aperture) of aperture_map selects the position of that value.

\* GraphicsState.__init__ as generate_statements calls it
OutInit ==
    [polarity_dark |-> TRUE, point |-> NoPoint, aperture |-> NoAperture,
     interpolation_mode |-> "LINEAR", image_polarity |-> "positive"]

\* the outcome of a helper: the state it leaves, the statements it yields
\* and the exception it raises
Yield(gs, out) == [gs |-> gs, out |-> out, err |-> "none"]

\* FileSettings.write_gerber_value: the value as a count of the smallest
\* decimal place of the number format
write_gerber_value(settings, value) ==
    CASE settings.number_format[2] = 6 -> value * 1000000
      [] settings.number_format[2] = 5 -> value * 100000
      [] settings.number_format[2] = 4 -> value * 10000
      [] OTHER -> value

\* points_close
points_close(a, b) ==
    IF a = b THEN TRUE
    ELSE IF a = NoPoint \/ b = NoPoint THEN FALSE
    ELSE a[1] = b[1] /\ a[2] = b[2]

\* GraphicsState.set_polarity
set_polarity(gs, polarity_dark) ==
    IF gs.polarity_dark # polarity_dark
    THEN Yield(store_polarity_dark(gs, polarity_dark), <<[kind |-> "LP", dark |-> polarity_dark]>>)
    ELSE Yield(gs, << >>)

\* set_aperture that does not store the aperture it selects
set_aperture_forgetful(gs, aperture, aperture_map) ==
    IF gs.aperture # aperture
    THEN IF \E k \in 1 .. Len(aperture_map) : aperture_map[k] = aperture
         THEN Yield(gs, <<[kind |-> "D", number |->
                             9 + CHOOSE k \in 1 .. Len(aperture_map) : aperture_map[k] = aperture]>>)
         ELSE [gs |-> gs, out |-> << >>, err |-> "KeyError"]
    ELSE Yield(gs, << >>)

\* GraphicsState.set_aperture; aperture_map is the aperture list, the
\* aperture at position k has the number 9 + k
set_aperture(gs, aperture, aperture_map) ==
    IF gs.aperture # aperture
    THEN IF \E k \in 1 .. Len(aperture_map) : aperture_map[k] = aperture
         THEN Yield([gs EXCEPT !.aperture = aperture],
                    <<[kind |-> "D", number |->
                         9 + CHOOSE k \in 1 .. Len(aperture_map) : aperture_map[k] = aperture]>>)
         ELSE [gs |-> [gs EXCEPT !.aperture = aperture], out |-> << >>, err |-> "KeyError"]
    ELSE Yield(gs, << >>)

\* GraphicsState.set_current_point
set_current_point(gs, settings, point) ==
    IF ~points_close(gs.point, point)
    THEN Yield([gs EXCEPT !.point = point],
               <<[kind |-> "XYD02", x |-> write_gerber_value(settings, point[1]),
                  y |-> write_gerber_value(settings, point[2])]>>)
    ELSE Yield(gs, << >>)

\* GraphicsState.set_interpolation_mode with interpolation_mode_statement
set_interpolation_mode(gs, mode) ==
    IF gs.interpolation_mode # mode
    THEN Yield([gs EXCEPT !.interpolation_mode = mode],
               <<[kind |-> "G", code |-> CASE mode = "LINEAR" -> "G01"
                                           [] mode = "CIRCULAR_CW" -> "G02"
                                           [] mode = "CIRCULAR_CCW" -> "G03"]>>)
    ELSE Yield(gs, << >>)

\* Flash.to_statements
flash_to_statements(obj, gs, settings, aperture_map) ==
    The({The({
        IF b.err # "none" THEN [gs |-> b.gs, out |-> a.out, err |-> b.err]
        ELSE Yield(update_point(b.gs, obj.x, obj.y).p,
                   a.out \o b.out \o
                   <<[kind |-> "D03XY", x |-> write_gerber_value(settings, obj.x),
                      y |-> write_gerber_value(settings, obj.y)]>>)
        : b \in {set_aperture(a.gs, obj.aperture, aperture_map)}})
      : a \in {set_polarity(gs, obj.polarity_dark)}})

\* Line.to_statements (clockwise is not read) and Arc.to_statements
stroke_to_statements(obj, gs, settings, aperture_map) ==
    The({The({
        IF b.err # "none" THEN [gs |-> b.gs, out |-> a.out, err |-> b.err]
        ELSE The({The({
                Yield(update_point(d.gs, obj.x2, obj.y2).p,
                      a.out \o b.out \o c.out \o d.out \o
                      <<IF obj.type = "Line"
                        THEN [kind |-> "D01XY", x |-> write_gerber_value(settings, obj.x2),
                              y |-> write_gerber_value(settings, obj.y2)]
                        ELSE [kind |-> "D01XYIJ", x |-> write_gerber_value(settings, obj.x2),
                              y |-> write_gerber_value(settings, obj.y2),
                              i |-> write_gerber_value(settings, obj.cx),
                              j |-> write_gerber_value(settings, obj.cy)]>>)
                : d \in {set_current_point(c.gs, settings, <<obj.x1, obj.y1>>)}})
              : c \in {set_interpolation_mode(b.gs,
                          IF obj.type = "Line" THEN "LINEAR"
                          ELSE IF obj.clockwise THEN "CIRCULAR_CW" ELSE "CIRCULAR_CCW")}})
        : b \in {set_aperture(a.gs, obj.aperture, aperture_map)}})
      : a \in {set_polarity(gs, obj.polarity_dark)}})

\* the loop of Region.to_statements over zip(outline[1:], arc_centers)
RECURSIVE region_segments(_, _, _, _, _)
region_segments(obj, k, gs, settings, out) ==
    IF k > Len(obj.arc_centers) \/ k + 1 > Len(obj.outline) THEN Yield(gs, out)
    ELSE LET point == obj.outline[k + 1]
             arc_center == obj.arc_centers[k]
         IN The({
              region_segments(obj, k + 1, update_point(m.gs, point[1], point[2]).p, settings,
                  out \o m.out \o
                  <<IF arc_center = << >>
                    THEN [kind |-> "D01XY", x |-> write_gerber_value(settings, point[1]),
                          y |-> write_gerber_value(settings, point[2])]
                    ELSE [kind |-> "D01XYIJ", x |-> write_gerber_value(settings, point[1]),
                          y |-> write_gerber_value(settings, point[2]),
                          i |-> write_gerber_value(settings, arc_center[2][1] - point[1]),
                          j |-> write_gerber_value(settings, arc_center[2][2] - point[2])]>>)
              : m \in {set_interpolation_mode(gs,
                          IF arc_center = << >> THEN "LINEAR"
                          ELSE IF arc_center[1] THEN "CIRCULAR_CW" ELSE "CIRCULAR_CCW")}})

\* Region.to_statements; outline[0] of an empty outline raises IndexError
region_to_statements(obj, gs, settings) ==
    The({
        IF obj.outline = << >>
        THEN [gs |-> a.gs, out |-> a.out \o <<[kind |-> "G36"]>>, err |-> "IndexError"]
        ELSE The({The({
                Yield(s.gs, s.out \o <<[kind |-> "G37"]>>)
                : s \in {region_segments(obj, 1, c.gs, settings,
                                         a.out \o <<[kind |-> "G36"]>> \o c.out)}})
              : c \in {set_current_point(a.gs, settings, obj.outline[1])}})
      : a \in {set_polarity(gs, obj.polarity_dark)}})

\* primitive.to_statements(gs)
to_statements(obj, gs, settings, aperture_map) ==
    CASE obj.type = "Flash" -> flash_to_statements(obj, gs, settings, aperture_map)
      [] obj.type \in {"Line", "Arc"} -> stroke_to_statements(obj, gs, settings, aperture_map)
      [] obj.type = "Region" -> region_to_statements(obj, gs, settings)

\* the apertures of the file that emits, and one that its list lacks
OutApertures == <<CircleAperture(1), CircleAperture(2)>>
OutObjApertures == {CircleAperture(1), CircleAperture(2), CircleAperture(3)}
OutPoints == {<<0, 0>>, <<1, 1>>}
\* the settings to_gerber hands on: number format (5, 6)
OutSettings == [unit |-> "mm", notation |-> "absolute", zeros |-> "None", number_format |-> <<5, 6>>]
OutLines == {GerberLine(p1, p2, a, d) : p1 \in OutPoints, p2 \in OutPoints,
                                        a \in OutObjApertures, d \in BOOLEAN}
OutArcs == {GerberArc(p1, p2, <<1, 0>>, cw, a, d) : p1 \in OutPoints, p2 \in OutPoints,
                                        cw \in BOOLEAN, a \in OutObjApertures, d \in BOOLEAN}
OutFlashes == {GerberFlash(p, a, d) : p \in OutPoints, a \in OutObjApertures, d \in BOOLEAN}
OutSegs == {o \in OutLines \cup OutArcs : o.aperture = CircleAperture(1) /\ o.polarity_dark}
OutRegions ==
    {RegionAppend(Region(d), s) : d \in BOOLEAN, s \in OutSegs}
    \cup {RegionAppend(RegionAppend(Region(d), s), t) : d \in BOOLEAN,
            s \in OutSegs, t \in {u \in OutSegs : u.x1 = 0 /\ u.y1 = 0 /\ u.x2 = 1}}

\* one pass of the loop "for primitive in self.objects: yield from
\* primitive.to_statements(gs)"; an exception ends the generator
Emit(obj) ==
    /\ run = "output" /\ last.h # "raise"
    /\ \E r \in {to_statements(obj, gb, OutSettings, OutApertures)} :
         /\ gb' = r.gs
         /\ last' = [item |-> obj, h |-> IF r.err = "none" THEN "yield" ELSE "raise",
                     w |-> {}, out |-> r.out, before |-> gb]
    /\ UNCHANGED <<run, ex, tk, files>>

EmitFlash == \E obj \in OutFlashes : Emit(obj)
EmitLine == \E obj \in OutLines : Emit(obj)
EmitArc == \E obj \in OutArcs : Emit(obj)
EmitRegion == \E obj \in OutRegions : Emit(obj)

NextO == EmitFlash \/ EmitLine \/ EmitArc \/ EmitRegion

\* an aperture that instantiates a macro: ApertureMacroInstance(macro, params)
MacroAperture(name, text, param) ==
    [shape |-> "macro", macro |-> [name |-> name, text |-> text], param |-> param]

\* GenericMacros.circle, .rect, .obround, .polygon
GenericMacros ==
    <<[name |-> "GNC", text |-> "circle"], [name |-> "GNR", text |-> "rect"],
      [name |-> "GNO", text |-> "obround"], [name |-> "GNP", text |-> "polygon"]>>

\* am_stmt(macro): '%AM{macro.name}*\n{macro.to_gerber(unit=settings.unit)}*\n%'
am_stmt(macro) == [kind |-> "AM", name |-> macro.name, text |-> macro.text]

\* aperture._rotated(): the aperture with its rotation folded into its
\* parameters; the apertures followed have no rotation
rotated(aperture) == aperture

\* '%ADD{number}{aperture.to_gerber(settings)}*%'
add_stmt(number, aperture) ==
    [kind |-> "ADD", number |-> number,
     text |-> IF aperture.shape = "macro"
              THEN <<aperture.macro.name, aperture.param>>
              ELSE <<aperture.shape, aperture.diameter>>]

\* the aperture loop with a processed_macros that is never added to
RECURSIVE aperture_statements_repeat(_, _, _, _)
aperture_statements_repeat(apertures, k, processed_macros, out) ==
    IF k > Len(apertures) THEN out
    ELSE LET aperture == apertures[k]
             macro_def == am_stmt(rotated(aperture).macro)
             fresh == aperture.shape = "macro" /\ macro_def \notin processed_macros
         IN aperture_statements_repeat(apertures, k + 1, processed_macros,
                out \o (IF fresh THEN <<macro_def>> ELSE << >>)
                    \o <<add_stmt(9 + k, aperture)>>)

\* "for number, aperture in enumerate(self.apertures, start=10)": the macro
\* definition of a macro aperture unless processed, then the ADD
RECURSIVE aperture_statements(_, _, _, _)
aperture_statements(apertures, k, processed_macros, out) ==
    IF k > Len(apertures) THEN out
    ELSE LET aperture == apertures[k]
             macro_def == am_stmt(rotated(aperture).macro)
             fresh == aperture.shape = "macro" /\ macro_def \notin processed_macros
         IN aperture_statements(apertures, k + 1,
                IF fresh THEN processed_macros \cup {macro_def} ELSE processed_macros,
                out \o (IF fresh THEN <<macro_def>> ELSE << >>)
                    \o <<add_stmt(9 + k, aperture)>>)

\* "for primitive in self.objects: yield from primitive.to_statements(gs)"
RECURSIVE object_statements(_, _, _, _, _, _)
object_statements(objects, k, gs, settings, aperture_map, out) ==
    IF k > Len(objects) THEN [out |-> out, err |-> "none"]
    ELSE The({IF r.err # "none" THEN [out |-> out \o r.out, err |-> r.err]
              ELSE object_statements(objects, k + 1, r.gs, settings, aperture_map, out \o r.out)
              : r \in {to_statements(objects[k], gs, settings, aperture_map)}})

\* GerberFile.generate_statements: the statements yielded, and the
\* exception that ends the generator
generate_statements(f, settings, drop_comments) ==
    LET head ==
          <<[kind |-> "G04", text |-> "Gerber file generated by Gerbonara"]>>
          \o [k \in 1 .. Len(f.file_attrs) |-> [kind |-> "TF", name |-> f.file_attrs[k]]]
          \o <<[kind |-> "MO", unit |-> IF settings.unit = "mm" THEN "MM" ELSE "IN"],
               [kind |-> "FS", zeros |-> IF settings.zeros = "trailing" THEN "T" ELSE "L",
                notation |-> IF settings.notation = "incremental" THEN "I" ELSE "A",
                number_format |-> settings.number_format],
               [kind |-> "IPPOS"], [kind |-> "G75"], [kind |-> "LP", dark |-> TRUE]>>
          \o (IF ~drop_comments
              THEN <<[kind |-> "G04", text |-> "Comments from original gerber file:"]>>
                   \o [k \in 1 .. Len(f.comments) |-> [kind |-> "G04", text |-> f.comments[k]]]
              ELSE << >>)
          \o [k \in 1 .. 4 |-> am_stmt(GenericMacros[k])]
        defs == aperture_statements(f.apertures, 1, {}, head)
        body == object_statements(f.objects, 1, OutInit, settings, f.apertures, defs)
    IN IF body.err # "none" THEN body
       ELSE [out |-> body.out \o <<[kind |-> "M02"]>>, err |-> "none"]

\* the files that generate: up to two file attributes, up to one comment,
\* up to MaxGenAps pairwise different apertures, two of them instances of
\* one macro, one an instance of a macro of another name and the same body,
\* one an instance of the generic circle, and up to MaxGenObjs flashes and
\* lines
GenApertures ==
    {CircleAperture(1), CircleAperture(2), MacroAperture("M1", "m1", 1),
     MacroAperture("M1", "m1", 2), MacroAperture("M2", "m1", 1),
     MacroAperture("GNC", "circle", 1)}
GenObjects ==
    {GerberFlash(<<0, 0>>, CircleAperture(1), TRUE),
     GerberFlash(<<1, 1>>, MacroAperture("M1", "m1", 2), FALSE),
     GerberLine(<<0, 0>>, <<1, 0>>, CircleAperture(2), TRUE)}
RECURSIVE DistinctSeqs(_, _)
DistinctSeqs(S, n) ==
    IF n = 0 THEN {<< >>}
    ELSE DistinctSeqs(S, n - 1)
         \cup {Append(s[1], s[2]) :
                 s \in {t \in DistinctSeqs(S, n - 1) \X S :
                          Len(t[1]) = n - 1 /\ \A i \in 1 .. Len(t[1]) : t[1][i] # t[2]}}
GenInputs ==
    {[file_attrs |-> fa, comments |-> cm, apertures |-> aps, objects |-> objs,
      drop_comments |-> dc]
       : fa \in {<< >>, <<"a1">>, <<"a1", "a2">>}, cm \in {<< >>, <<"c1">>},
         aps \in DistinctSeqs(GenApertures, MaxGenAps),
         objs \in DistinctSeqs(GenObjects, MaxGenObjs), dc \in BOOLEAN}

\* list(f.generate_statements(settings, drop_comments))
Generate ==
    /\ run = "generate" /\ last.h = "none"
    /\ \E r \in {generate_statements(files, OutSettings, files.drop_comments)} :
         last' = [item |-> "generate", h |-> IF r.err = "none" THEN "yield" ELSE "raise",
                  w |-> {}, out |-> r.out]
    /\ UNCHANGED <<run, ex, tk, gb, files>>

NextN == Generate

\* a file that has no import settings: import_settings is None
NoSettings == [absent |-> TRUE]

\* GerberFile.to_gerber: the statements that are joined by newlines;
\* None.copy() raises AttributeError
file_to_gerber(f, settings, drop_comments) ==
    IF settings = NoSettings
    THEN IF f.import_settings = NoSettings THEN [out |-> << >>, err |-> "AttributeError"]
         ELSE generate_statements(f, [f.import_settings EXCEPT !.zeros = "None",
                                                               !.number_format = <<5, 6>>],
                                  drop_comments)
    ELSE generate_statements(f, settings, drop_comments)

\* FileSettings.parse_gerber_value on the digits of a coordinate written
\* without a decimal point: the inverse of write_gerber_value
read_gerber_value(settings, digits) ==
    CASE settings.number_format[2] = 6 -> digits \div 1000000
      [] settings.number_format[2] = 4 -> digits \div 10000
      [] OTHER -> digits

\* the pattern of STATEMENT_REGEXES that matches the text of a generated
\* statement first, and the groups of the match.  The coord pattern ends
\* in (?P<operation>D0?[123])?$ and so matches no text that has the
\* operation before the coordinates; the aperture pattern, which follows
\* it, matches the D and its digits at the start of such a text.
statement_match(p, stmt) ==
    CASE stmt.kind = "G04" -> [h |-> "comment", m |-> [comment |-> <<stmt.text>>]]
      [] stmt.kind = "MO" -> [h |-> "unit_mode", m |-> [unit |-> stmt.unit]]
      [] stmt.kind = "FS" ->
           [h |-> "format_spec",
            m |-> [zero |-> stmt.zeros, notation |-> stmt.notation,
                   x |-> stmt.number_format, y |-> stmt.number_format]]
      [] stmt.kind = "IPPOS" -> [h |-> "image_polarity", m |-> [polarity |-> "POS"]]
      [] stmt.kind = "G75" ->
           [h |-> "coord", m |-> [interpolation |-> "G75", x |-> None, y |-> None,
                                  i |-> None, j |-> None, operation |-> "None"]]
      [] stmt.kind = "LP" ->
           [h |-> "load_polarity", m |-> [polarity |-> IF stmt.dark THEN "D" ELSE "C"]]
      [] stmt.kind = "AM" ->
           [h |-> "aperture_macro", m |-> [name |-> stmt.name, macro |-> stmt.text]]
      [] stmt.kind = "ADD" ->
           [h |-> "aperture_definition",
            m |-> [number |-> stmt.number, shape |-> stmt.text[1], modifiers |-> stmt.text[2]]]
      [] stmt.kind = "D" -> [h |-> "aperture", m |-> [number |-> stmt.number]]
      [] stmt.kind = "G" ->
           [h |-> "coord", m |-> [interpolation |-> stmt.code, x |-> None, y |-> None,
                                  i |-> None, j |-> None, operation |-> "None"]]
      [] stmt.kind = "XYD02" ->
           [h |-> "coord",
            m |-> [interpolation |-> "None",
                   x |-> read_gerber_value(p.file_settings, stmt.x),
                   y |-> read_gerber_value(p.file_settings, stmt.y),
                   i |-> None, j |-> None, operation |-> "D02"]]
      [] stmt.kind = "D03XY" -> [h |-> "aperture", m |-> [number |-> 3]]
      [] stmt.kind \in {"D01XY", "D01XYIJ"} -> [h |-> "aperture", m |-> [number |-> 1]]
      [] stmt.kind = "G36" -> [h |-> "region_start", m |-> << >>]
      [] stmt.kind = "G37" -> [h |-> "region_end", m |-> << >>]
      [] stmt.kind = "M02" -> [h |-> "eof", m |-> << >>]

\* the files of the round trip: imported in millimetres or inches, two
\* apertures, up to MaxTripObjs objects that use them
TripSettings ==
    {[unit |-> u, notation |-> "absolute", zeros |-> "leading", number_format |-> <<2, 4>>]
       : u \in {"mm", "inch"}}
TripObjects ==
    {GerberFlash(<<1, 1>>, CircleAperture(1), TRUE),
     GerberLine(<<0, 0>>, <<1, 0>>, CircleAperture(2), TRUE),
     GerberArc(<<0, 0>>, <<1, 1>>, <<1, 0>>, TRUE, CircleAperture(1), FALSE),
     RegionAppend(Region(TRUE), GerberLine(<<0, 0>>, <<1, 1>>, NoAperture, TRUE))}
TripInputs ==
    {[file_attrs |-> << >>, comments |-> << >>, apertures |-> OutApertures,
      objects |-> objs, import_settings |-> st]
       : objs \in DistinctSeqs(TripObjects, MaxTripObjs), st \in TripSettings}

\* the parser GerberFile.from_string creates; the aperture numbers followed
\* are those a generated text defines
GbInitSettings ==
    [GbInit EXCEPT !.aperture_map = [n \in 10 .. (9 + Len(OutApertures)) |-> NoAperture]]
    @@ [file_settings |-> FileSettings]

\* one command of GerberParser.parse on the text of f.to_gerber()
TripCommand ==
    /\ run = "trip" /\ gb.err = "none" /\ ~gb.done /\ files.pos <= Len(files.text)
    /\ \E sm \in {statement_match(gb, files.text[files.pos])} :
         \E r \in {parse_command(gb, sm.h, sm.m)} :
            /\ gb' = r.p
            /\ last' = [item |-> files.text[files.pos].kind, h |-> sm.h, w |-> r.w, m |-> sm.m]
    /\ files' = [files EXCEPT !.pos = @ + 1]
    /\ UNCHANGED <<run, ex, tk>>

\* the text is read: parse returns and from_string returns the file
TripEnd ==
    /\ run = "trip" /\ gb.err = "none" /\ ~gb.done /\ files.pos > Len(files.text)
    /\ \E r \in {parse_finish(gb)} :
         /\ gb' = r.p
         /\ last' = [item |-> "end", h |-> "end", w |-> r.w, m |-> << >>]
    /\ UNCHANGED <<run, ex, tk, files>>

NextR == TripCommand \/ TripEnd

\* ========================================================================
\* XNC output (excellon.py ExcellonContext, ExcellonFile._generate_statements;
\* graphic_objects.py to_xnc)
\* ========================================================================
\* a tool with the attributes the tool table is sorted by; plated is 1
\* (True), 0 (False) or None
XncTool(plated, diameter) == [plated |-> plated, diameter |-> diameter, depth_offset |-> 0]

\* ExcellonContext.__init__; tools gives each tool its index, the position
\* of the tool in the sequence
ExcellonContext(tools) ==
    [tools |-> tools, mode |-> "None", current_tool |-> NoTool, x |-> None, y |-> None,
     current_point |-> NoPoint]

\* the outcome of a method of the context: the context it leaves, the
\* statements it yields, the exception it raises
XncYield(ctx, out) == [ctx |-> ctx, out |-> out, err |-> "none"]
XncRaise(ctx, out, e) == [ctx |-> ctx, out |-> out, err |-> e]

\* select_tool that leaves current_tool as it was
select_tool_forgetful(ctx, tool) ==
    IF ctx.current_tool # tool
    THEN IF \E k \in 1 .. Len(ctx.tools) : ctx.tools[k] = tool
         THEN XncYield(ctx, <<[kind |-> "T", index |->
                                 CHOOSE k \in 1 .. Len(ctx.tools) : ctx.tools[k] = tool]>>)
         ELSE XncRaise(ctx, << >>, "KeyError")
    ELSE XncYield(ctx, << >>)

\* ExcellonContext.select_tool
select_tool(ctx, tool) ==
    IF ctx.current_tool # tool
    THEN IF \E k \in 1 .. Len(ctx.tools) : ctx.tools[k] = tool
         THEN XncYield([ctx EXCEPT !.current_tool = tool],
                       <<[kind |-> "T", index |->
                            CHOOSE k \in 1 .. Len(ctx.tools) : ctx.tools[k] = tool]>>)
         ELSE XncRaise([ctx EXCEPT !.current_tool = tool], << >>, "KeyError")
    ELSE XncYield(ctx, << >>)

\* ExcellonContext.drill_mode
drill_mode(ctx) ==
    IF ctx.mode # "DRILLING"
    THEN XncYield([ctx EXCEPT !.mode = "DRILLING"], <<[kind |-> "G05"]>>)
    ELSE XncYield(ctx, << >>)

\* ExcellonContext.route_mode: its first statement evaluates self.unit,
\* an attribute that ExcellonContext does not define
route_mode(ctx, x, y) == XncRaise(ctx, << >>, "AttributeError")

\* ExcellonContext.set_current_point
xnc_set_current_point(ctx, x, y) == [ctx EXCEPT !.current_point = <<x, y>>]

\* Flash.to_xnc
flash_to_xnc(obj, ctx, settings) ==
    The({IF a.err # "none" THEN a
         ELSE The({XncYield(xnc_set_current_point(b.ctx, obj.x, obj.y),
                            a.out \o b.out \o
                            <<[kind |-> "XY", x |-> write_gerber_value(settings, obj.x),
                               y |-> write_gerber_value(settings, obj.y)]>>)
                   : b \in {drill_mode(a.ctx)}})
         : a \in {select_tool(ctx, obj.tool)}})

\* Line.to_xnc and Arc.to_xnc
stroke_to_xnc(obj, ctx, settings) ==
    The({IF a.err # "none" THEN a
         ELSE The({IF b.err # "none" THEN XncRaise(b.ctx, a.out \o b.out, b.err)
                   ELSE XncYield(xnc_set_current_point(b.ctx, obj.x2, obj.y2),
                          a.out \o b.out \o
                          <<IF obj.type = "Line"
                            THEN [kind |-> "G01", x |-> write_gerber_value(settings, obj.x2),
                                  y |-> write_gerber_value(settings, obj.y2)]
                            ELSE [kind |-> IF obj.clockwise THEN "G02" ELSE "G03",
                                  x |-> write_gerber_value(settings, obj.x2),
                                  y |-> write_gerber_value(settings, obj.y2),
                                  i |-> write_gerber_value(settings, obj.cx),
                                  j |-> write_gerber_value(settings, obj.cy)]>>)
                   : b \in {route_mode(a.ctx, obj.x1, obj.y1)}})
         : a \in {select_tool(ctx, obj.tool)}})

\* obj.to_xnc(ctx)
to_xnc(obj, ctx, settings) ==
    IF obj.type = "Flash" THEN flash_to_xnc(obj, ctx, settings)
    ELSE stroke_to_xnc(obj, ctx, settings)

\* the tools an XNC file uses, the points of its objects, its settings
XncTools == {XncTool(1, 1), XncTool(0, 1), XncTool(1, 2)}
XncToolTable == <<XncTool(0, 1), XncTool(1, 1), XncTool(1, 2)>>
XncPoints == {<<0, 0>>, <<1, 1>>}
XncSettings == [unit |-> "mm", notation |-> "absolute", zeros |-> "None", number_format |-> <<3, 5>>]
XncFlashes == {Flash(p[1], p[2], t) : p \in XncPoints, t \in XncTools}
XncLines == {Line(p1, p2, t) : p1 \in XncPoints, p2 \in XncPoints, t \in XncTools}
XncArcs == {Arc(p1, p2, 1, 0, cw, t) : p1 \in XncPoints, p2 \in XncPoints,
                                       cw \in BOOLEAN, t \in XncTools}

\* one pass of the loop "for obj in self.objects: yield from
\* obj.to_xnc(ctx)"; an exception ends the generator
EmitXnc(obj) ==
    /\ run = "xnc" /\ last.h # "raise"
    /\ \E r \in {to_xnc(obj, ex, XncSettings)} :
         /\ ex' = r.ctx
         /\ last' = [item |-> obj, h |-> IF r.err = "none" THEN "yield" ELSE "raise",
                     w |-> {}, out |-> r.out, before |-> ex]
    /\ UNCHANGED <<run, tk, gb, files>>

XncFlash == \E obj \in XncFlashes : EmitXnc(obj)
XncLine == \E obj \in XncLines : EmitXnc(obj)
XncArc == \E obj \in XncArcs : EmitXnc(obj)

NextC == XncFlash \/ XncLine \/ XncArc

\* the key of the tool table: (tool.plated, tool.diameter, tool.depth_offset)
\* compared as Python compares tuples; False sorts before True
ToolKeyLess(a, b) ==
    \/ a.plated < b.plated
    \/ a.plated = b.plated /\ a.diameter < b.diameter
    \/ a.plated = b.plated /\ a.diameter = b.diameter /\ a.depth_offset < b.depth_offset

\* the tools of the objects in the order of their first use: the values of
\* tool_map, a dictionary keyed by id(obj.tool)
RECURSIVE tool_map(_, _, _)
tool_map(objects, k, acc) ==
    IF k > Len(objects) THEN acc
    ELSE tool_map(objects, k + 1,
                  IF InList(acc, objects[k].tool) THEN acc ELSE Append(acc, objects[k].tool))

\* sorted(tool_map.items(), key=...): ordering None against True or False
\* raises TypeError; the sort is stable
sorted_tools(used) ==
    IF \E i, j \in 1 .. Len(used) : used[i].plated = None /\ used[j].plated # None
    THEN [tools |-> << >>, err |-> "TypeError"]
    ELSE [tools |-> CHOOSE s \in [1 .. Len(used) -> {used[k] : k \in 1 .. Len(used)}] :
                       /\ \A k \in 1 .. Len(used) : InList(s, used[k])
                       /\ \A i, j \in 1 .. Len(used) : i < j => ~ToolKeyLess(s[j], s[i]),
          err |-> "none"]

\* the loop over the objects of _generate_statements
RECURSIVE xnc_object_statements(_, _, _, _, _)
xnc_object_statements(objects, k, ctx, settings, out) ==
    IF k > Len(objects) THEN [out |-> out, err |-> "none"]
    ELSE The({IF r.err # "none" THEN [out |-> out \o r.out, err |-> r.err]
              ELSE xnc_object_statements(objects, k + 1, r.ctx, settings, out \o r.out)
              : r \in {to_xnc(objects[k], ctx, settings)}})

\* ExcellonFile._generate_statements: the statements yielded and the
\* exception that ends the generator
xnc_generate_statements(f, settings) ==
    LET head ==
          <<[kind |-> "comment", text |-> " XNC file generated by gerbonara"]>>
          \o (IF f.comments # << >>
              THEN <<[kind |-> "comment", text |-> " Comments found in original file:"]>>
              ELSE << >>)
          \o [k \in 1 .. Len(f.comments) |-> [kind |-> "comment", text |-> f.comments[k]]]
          \o <<[kind |-> "M48"],
               [kind |-> "unit", text |-> IF settings.unit = "mm" THEN "METRIC" ELSE "INCH"]>>
        used == tool_map(f.objects, 1, << >>)
        st == sorted_tools(used)
        tools == st.tools
        mixed_plating == Cardinality({used[k].plated : k \in 1 .. Len(used)}) > 1
        RECURSIVE table(_)
        table(k) ==
            IF k > Len(tools) THEN << >>
            ELSE (IF mixed_plating
                  THEN <<[kind |-> "TYPE", plated |-> Truthy(tools[k].plated)]>>
                  ELSE << >>)
                 \o <<[kind |-> "tooldef", index |-> k, tool |-> tools[k]]>> \o table(k + 1)
        body == xnc_object_statements(f.objects, 1, ExcellonContext(tools), settings,
                                      head \o table(1) \o <<[kind |-> "%"]>>)
    IN IF st.err # "none" THEN [out |-> head, err |-> st.err]
       ELSE IF body.err # "none" THEN body
       ELSE [out |-> body.out \o <<[kind |-> "M30"]>>, err |-> "none"]

\* ExcellonFile.to_excellon
to_excellon(f, settings) ==
    IF settings = NoSettings
    THEN xnc_generate_statements(f,
             [(IF f.import_settings # NoSettings THEN f.import_settings ELSE FileSettings)
                 EXCEPT !.zeros = "None", !.number_format = <<3, 5>>])
    ELSE xnc_generate_statements(f, settings)

\* the files that are written: up to one comment, up to MaxXncObjs flashes
\* and lines with tools that are plated, not plated or of unknown plating
XncFileTools == {XncTool(1, 2), XncTool(1, 1), XncTool(0, 1), XncTool(None, 1)}
XncFileObjects ==
    {Flash(0, 0, t) : t \in XncFileTools} \cup {Flash(1, 1, XncTool(1, 2))}
    \cup {Line(<<0, 0>>, <<1, 1>>, XncTool(1, 1))}
XncInputs ==
    {[comments |-> cm, objects |-> objs,
      import_settings |-> [unit |-> "mm", notation |-> "absolute", zeros |-> "leading",
                           number_format |-> <<2, 4>>]]
       : cm \in {<< >>, <<"c1">>}, objs \in DistinctSeqs(XncFileObjects, MaxXncObjs)}

\* f.to_excellon()
GenerateXnc ==
    /\ run = "to_excellon" /\ last.h = "none"
    /\ \E r \in {to_excellon(files, NoSettings)} :
         last' = [item |-> "to_excellon", h |-> IF r.err = "none" THEN "yield" ELSE "raise",
                  w |-> {}, out |-> r.out, err |-> r.err]
    /\ UNCHANGED <<run, ex, tk, gb, files>>

NextY == GenerateXnc

\* ========================================================================
\* Allegro parameter files (excellon.py parse_allegro_ncparam,
\* ExcellonFile.open)
\* ========================================================================
\* A line of a parameter file is the pattern it matches in full and the
\* text of the pattern's group; a directory is the set of parameter files
\* it holds beside the drill file.

\* x, _, y = match[1].partition('.'); int(x), int(y)
format_digits(text) ==
    CASE text = "2.4" -> <<2, 4>>
      [] text = "3.5" -> <<3, 5>>

\* the loop of parse_allegro_ncparam over data.splitlines()
RECURSIVE ncparam_lines(_, _, _)
ncparam_lines(data, k, acc) ==
    IF k > Len(data) THEN acc
    ELSE LET line == data[k]
         IN ncparam_lines(data, k + 1,
              CASE line.key = "FORMAT" ->
                     [acc EXCEPT !.settings.number_format = format_digits(line.value)]
                [] line.key = "COORDINATES" ->
                     [acc EXCEPT !.settings.notation = line.value]
                [] line.key = "OUTPUT-UNITS" ->
                     [acc EXCEPT !.settings.unit = IF line.value = "METRIC" THEN "mm" ELSE "inch"]
                [] line.key = "SUPPRESS-LEAD-ZEROES" -> [acc EXCEPT !.lz_supp = line.value = "YES"]
                [] line.key = "SUPPRESS-TRAIL-ZEROES" -> [acc EXCEPT !.tz_supp = line.value = "YES"]
                [] OTHER -> acc)

\* parse_allegro_ncparam(data, settings): the settings object as the
\* function leaves it, the value returned and the exception raised.  With
\* settings None the function assigns to self.settings; it is a module
\* level function, so the name self is not defined.  No path of the
\* function has a return statement.
parse_allegro_ncparam(data, settings) ==
    IF settings = NoSettings
    THEN [settings |-> settings, ret |-> NoSettings, err |-> "NameError"]
    ELSE LET acc == ncparam_lines(data, 1, [settings |-> settings, lz_supp |-> FALSE,
                                            tz_supp |-> FALSE])
         IN IF acc.lz_supp /\ acc.tz_supp
            THEN [settings |-> acc.settings, ret |-> NoSettings, err |-> "SyntaxError"]
            ELSE [settings |-> [acc.settings EXCEPT
                                  !.zeros = IF acc.lz_supp THEN "leading" ELSE "trailing"],
                  ret |-> NoSettings, err |-> "none"]

\* ExcellonFile.from_string on a drill file that parses: the file returned
\* has the settings argument as its import_settings
from_string_settings(settings) == settings

\* ExcellonFile.open: the file read for the parameters, the import
\* settings of the file returned, the exception raised
excellon_open(dir, data, settings) ==
    IF settings = NoSettings /\ dir # {}
    THEN LET fn == IF "nc_param.txt" \in dir THEN "nc_param.txt" ELSE "ncdrill.log"
             r == parse_allegro_ncparam(data[fn], NoSettings)
         IN IF r.err # "none"
            THEN [consulted |-> fn, import_settings |-> NoSettings, err |-> r.err]
            ELSE [consulted |-> fn, import_settings |-> from_string_settings(r.ret),
                  err |-> "none"]
    ELSE [consulted |-> "none", import_settings |-> from_string_settings(settings),
          err |-> "none"]

\* the lines of the parameter files, the directories and the settings
\* passed to open
NcLines ==
    {[key |-> "FORMAT", value |-> "2.4"], [key |-> "FORMAT", value |-> "3.5"],
     [key |-> "COORDINATES", value |-> "absolute"],
     [key |-> "OUTPUT-UNITS", value |-> "METRIC"], [key |-> "OUTPUT-UNITS", value |-> "ENGLISH"],
     [key |-> "SUPPRESS-LEAD-ZEROES", value |-> "YES"],
     [key |-> "SUPPRESS-TRAIL-ZEROES", value |-> "YES"],
     [key |-> "SUPPRESS-TRAIL-ZEROES", value |-> "NO"],
     [key |-> "other", value |-> "CODE ASCII"]}
NcDirs == SUBSET {"nc_param.txt", "ncdrill.log"}
NcSettings ==
    {NoSettings,
     [unit |-> "inch", notation |-> "absolute", zeros |-> "leading", number_format |-> <<2, 5>>]}
NcInputs ==
    {[dir |-> dir, data |-> [fn \in {"nc_param.txt", "ncdrill.log"} |->
                                IF fn = "nc_param.txt" THEN d1 ELSE <<[key |-> "FORMAT", value |-> "3.5"]>>],
      settings |-> st]
       : dir \in NcDirs, d1 \in DistinctSeqs(NcLines, MaxNcLines), st \in NcSettings}

\* ExcellonFile.open(filename, settings=settings)
Open ==
    /\ run = "open" /\ last.h = "none"
    /\ \E r \in {excellon_open(files.dir, files.data, files.settings)} :
         last' = [item |-> "open", h |-> IF r.err = "none" THEN "return" ELSE "raise",
                  w |-> {}, result |-> r]
    /\ UNCHANGED <<run, ex, tk, gb, files>>

\* parse_allegro_ncparam(data, settings) called with the data of
\* nc_param.txt
ParseNcparam ==
    /\ run = "open" /\ last.h = "none"
    /\ \E r \in {parse_allegro_ncparam(files.data["nc_param.txt"], files.settings)} :
         last' = [item |-> "parse_allegro_ncparam",
                  h |-> IF r.err = "none" THEN "return" ELSE "raise", w |-> {}, result |-> r]
    /\ UNCHANGED <<run, ex, tk, gb, files>>

NextK == Open \/ ParseNcparam

\* ========================================================================
\* from_string (rs274x.py GerberFile.from_string, excellon.py
\* ExcellonFile.from_string)
\* ========================================================================
\* files.settings is the settings argument of ExcellonFile.from_string,
\* files.result the import_settings of the file a from_string returned.

\* the settings passed to ExcellonFile.from_string
GivenSettings ==
    [unit |-> "inch", notation |-> "absolute", zeros |-> "leading", number_format |-> <<2, 4>>]
NotReturned == [pending |-> TRUE]

\* a line of the drill file is parsed
FromStringLine ==
    /\ files.result = NotReturned
    /\ (LineM48 \/ LineNormalTooldef \/ LinePercent \/ LineToolSelection \/ LineCoord \/ LineM30)

\* ExcellonFile.from_string returns: _do_parse has read the data without
\* an exception, the file is built with import_settings=settings
ExcellonFromString ==
    /\ run = "excellon" /\ ex.err = "none" /\ files.result = NotReturned
    /\ files' = [files EXCEPT !.result = from_string_settings(files.settings)]
    /\ last' = [item |-> "from_string", h |-> "return", w |-> {}, arg |-> None]
    /\ UNCHANGED <<run, ex, tk, gb>>

\* a command of the Gerber text is parsed: MO, FS or a coordinate with D02
FromStringUnit ==
    /\ files.result = NotReturned
    /\ \E u \in {"MM", "IN"} : GbStep("unit_mode", [unit |-> u], DeepObjs, DeepSegs)
FromStringFormat ==
    /\ files.result = NotReturned
    /\ \E m \in {[zero |-> z, notation |-> n, x |-> x, y |-> y] :
                    z \in {"L", "T", "None"}, n \in {"A", "I"},
                    x \in {<<2, 4>>, <<4, 6>>}, y \in {<<2, 4>>, <<4, 6>>}} :
          GbStep("format_spec", m, DeepObjs, DeepSegs)
FromStringMove ==
    /\ files.result = NotReturned
    /\ \E m \in {[interpolation |-> "None", x |-> 1, y |-> 1, i |-> None, j |-> None,
                  operation |-> "D02"]} :
          GbStep("coord", m, DeepObjs, DeepSegs)

\* GerberFile.from_string returns: parse has read the data without an
\* exception and stored the parser's file_settings as import_settings
GerberFromString ==
    /\ run = "gerber" /\ gb.err = "none" /\ ~gb.done /\ files.result = NotReturned
    /\ \E r \in {parse_finish(gb)} :
         /\ gb' = r.p
         /\ files' = [files EXCEPT !.result = r.p.file_settings]
         /\ last' = [item |-> "from_string", h |-> "return", w |-> r.w, m |-> << >>,
                     neg_seen |-> last.neg_seen, redefined |-> last.redefined]
    /\ UNCHANGED <<run, ex, tk>>

NextJ ==
    \/ FromStringLine \/ ExcellonFromString
    \/ FromStringUnit \/ FromStringFormat \/ FromStringMove \/ GerberFromString

\* coordinate statements that give both, one or none of X and Y with an
\* operation code, in linear interpolation mode
OmitCoord ==
    \E m \in {[interpolation |-> "None", x |-> x, y |-> y, i |-> None, j |-> None,
               operation |-> op] :
                 x \in {None, 0, 1}, y \in {None, 0, 1}, op \in {"D01", "D02", "D03"}} :
        GbStep("coord", m, DeepObjs, DeepSegs)

NextU == OmitCoord \/ FlDefine \/ FlSelect

\* ========================================================================
\* offset (rs274x.py GerberFile.offset, excellon.py ExcellonFile.offset;
\* graphic_objects.py with_offset)
\* ========================================================================
\* Flash._with_offset, Line._with_offset, Arc._with_offset and
\* Region._with_offset, which hands poly.arc_centers to the new Region as
\* it is
object_with_offset(obj, dx, dy) ==
    CASE obj.type = "Flash" -> [obj EXCEPT !.x = @ + dx, !.y = @ + dy]
      [] obj.type \in {"Line", "Arc"} ->
           [obj EXCEPT !.x1 = @ + dx, !.y1 = @ + dy, !.x2 = @ + dx, !.y2 = @ + dy]
      [] obj.type = "Region" ->
           [obj EXCEPT !.outline = [k \in 1 .. Len(@) |-> <<@[k][1] + dx, @[k][2] + dy>>]]

\* GerberObject.with_offset for an offset given in the unit of the object:
\* self.unit(dx, unit) is dx
with_offset(obj, dx, dy) == object_with_offset(obj, dx, dy)

\* GerberFile.offset and ExcellonFile.offset: the new list of objects
offset(objects, dx, dy) == [k \in 1 .. Len(objects) |-> with_offset(objects[k], dx, dy)]

\* the objects of the files that are moved, and the offsets
OffsetObjects ==
    {GerberFlash(<<0, 1>>, CircleAperture(1), TRUE),
     GerberLine(<<0, 0>>, <<1, 0>>, CircleAperture(1), TRUE),
     GerberArc(<<0, 0>>, <<1, 1>>, <<1, 0>>, TRUE, CircleAperture(1), TRUE),
     RegionAppend(Region(TRUE), GerberLine(<<0, 0>>, <<1, 1>>, NoAperture, TRUE)),
     RegionAppend(RegionAppend(Region(TRUE), GerberLine(<<0, 0>>, <<1, 0>>, NoAperture, TRUE)),
                  GerberArc(<<1, 0>>, <<0, 0>>, <<0, 1>>, FALSE, NoAperture, TRUE))}
OffsetInputs ==
    {[objects |-> objs, dx |-> dx, dy |-> dy, result |-> << >>, moved |-> FALSE]
       : objs \in DistinctSeqs(OffsetObjects, MaxOffsetObjs), dx \in {0, 1, 2}, dy \in {0, 1}}

\* f.offset(dx, dy, unit)
Offset ==
    /\ run = "offset" /\ ~files.moved
    /\ files' = [files EXCEPT !.result = offset(files.objects, files.dx, files.dy),
                              !.moved = TRUE]
    /\ last' = [item |-> "offset", h |-> "offset", w |-> {}]
    /\ UNCHANGED <<run, ex, tk, gb>>

NextV == Offset

\* ========================================================================
\* to_gerber on files of every import (rs274x.py GerberFile.to_gerber)
\* ========================================================================
\* the settings a file was imported with: none for a file that was built
\* and not imported, else what the FS and MO statements of the text said
ImportSettings ==
    {NoSettings}
    \cup {[unit |-> u, notation |-> n, zeros |-> z, number_format |-> nf]
            : u \in {"mm", "inch"}, n \in {"absolute", "incremental"},
              z \in {"leading", "trailing"}, nf \in {<<2, 4>>, <<5, 6>>}}
ToGerberInputs ==
    {[file_attrs |-> << >>, comments |-> << >>, apertures |-> OutApertures,
      objects |-> objs, import_settings |-> st, settings |-> s,
      out |-> << >>, err |-> "pending"]
       : objs \in DistinctSeqs(TripObjects, MaxToGerberObjs), st \in ImportSettings,
         s \in {NoSettings, OutSettings}}

\* f.to_gerber(settings)
ToGerber ==
    /\ run = "to_gerber" /\ files.err = "pending"
    /\ \E r \in {file_to_gerber(files, files.settings, TRUE)} :
         files' = [files EXCEPT !.out = r.out, !.err = r.err]
    /\ last' = [item |-> "to_gerber", h |-> "to_gerber", w |-> {}]
    /\ UNCHANGED <<run, ex, tk, gb>>

NextW == ToGerber

\* coordinate commands under either notation: FS statements, G90 and G91,
\* and D01, D02 and D03 with X and Y given or omitted
SetNotation ==
    \/ \E m \in {[zero |-> "L", notation |-> n, x |-> <<2, 4>>, y |-> <<2, 4>>] : n \in {"A", "I"}} :
          GbStep("format_spec", m, DeepObjs, DeepSegs)
    \/ \E m \in {[mode |-> g] : g \in {"G90", "G91"}} :
          GbStep("old_notation", m, DeepObjs, DeepSegs)

NextQ == SetNotation \/ OmitCoord \/ FlDefine \/ FlSelect

\* ========================================================================
\* deprecated image transforms (rs274x.py, IR, MI, SF and OF statements)
\* ========================================================================
\* what the statements read so far say: the image rotation, mirroring, scale
\* and offset in force
StatedInit ==
    [rotation |-> 0, mirror |-> <<FALSE, FALSE>>, scale |-> <<1, 1>>, offset |-> <<0, 0>>]
Stated(st, h, m) ==
    CASE h = "image_rotation" -> [st EXCEPT !.rotation = m.rotation]
      [] h = "mirror_image" -> [st EXCEPT !.mirror = mirror_flags(m)]
      [] h = "scale_factor" -> [st EXCEPT !.scale = scale_factors(m)]
      [] h = "offset" -> [st EXCEPT !.offset = <<IF m.a = None THEN 0 ELSE m.a,
                                                 IF m.b = None THEN 0 ELSE m.b>>]
      [] OTHER -> st

\* the IR, MI, SF and OF statements read
ImageStatements ==
    {[h |-> "image_rotation", m |-> [rotation |-> r]] : r \in {0, 90, 180, 270}}
    \cup {[h |-> "mirror_image", m |-> [ma |-> a, mb |-> b]] : a \in {None, 1}, b \in {0, 1}}
    \cup {[h |-> "scale_factor", m |-> [sa |-> a, sb |-> a]] : a \in {None, 2}}
    \cup {[h |-> "offset", m |-> [a |-> a, b |-> None]] : a \in {None, 1}}

\* one command of GerberParser.parse, with what the statements say so far
\* carried along
GbReadStated(h, m) ==
    /\ run = "gerber" /\ gb.err = "none" /\ ~gb.done /\ Len(gb.objects) < MaxMapObjs
    /\ \E r \in {parse_command(gb, h, m)} :
       /\ gb' = r.p
       /\ last' = [item |-> h, h |-> h, w |-> r.w, m |-> m]
       /\ files' = IF r.p.err = "none" THEN Stated(files, h, m) ELSE files
       /\ UNCHANGED <<run, ex, tk>>

ImageStatement == \E c \in ImageStatements : GbReadStated(c.h, c.m)
MapDefine ==
    \E m \in {[number |-> 10, shape |-> "C", modifiers |-> 1]} :
        GbReadStated("aperture_definition", m)
MapSelect == \E m \in {[number |-> 10]} : GbReadStated("aperture", m)
MapFlash ==
    \E m \in {[interpolation |-> "None", x |-> 1, y |-> 0, i |-> None, j |-> None,
               operation |-> "D03"]} :
        GbReadStated("coord", m)
MapArc ==
    \E m \in {[interpolation |-> "G03", x |-> 0, y |-> 1, i |-> 0, j |-> 1,
               operation |-> "D01"]} :
        GbReadStated("coord", m)

NextH == ImageStatement \/ MapDefine \/ MapSelect \/ MapFlash \/ MapArc

\* ========================================================================
\* arcs of multi-quadrant mode (rs274x.py GraphicsState._create_arc)
\* ========================================================================
\* start points, end points that differ from them, I/J as multi-quadrant
\* mode writes them, without a sign, and both directions
ArcPoints == {<<x, y>> : x \in 0 .. MaxArcCoord, y \in 0 .. 1}
ArcInputs ==
    {[old_point |-> a, new_point |-> b, control_point |-> <<i, j>>, clockwise |-> cw,
      obj |-> NoObj, err |-> "pending"]
       : a \in ArcPoints, b \in ArcPoints, i \in 0 .. MaxArcCoord, j \in 0 .. 1,
         cw \in BOOLEAN}

\* gs._create_arc(old_point, new_point, (i, j), multi_quadrant=True) in the
\* graphics state of a file without image transforms
CreateArc ==
    /\ run = "arc" /\ files.err = "pending"
    /\ \E g \in {[WithMat(gb) EXCEPT !.interpolation_mode =
                     IF files.clockwise THEN "CIRCULAR_CW" ELSE "CIRCULAR_CCW"]} :
         \E r \in {create_arc(g, files.old_point, files.new_point, files.control_point,
                              FALSE, TRUE)} :
            /\ files' = [files EXCEPT !.obj = r.obj, !.err = r.err]
            /\ gb' = g
    /\ last' = [item |-> "create_arc", h |-> "create_arc", w |-> {}]
    /\ UNCHANGED <<run, ex, tk>>

NextZ == CreateArc

\* ========================================================================
\* lines after the end of the program (excellon.py ExcellonParser._do_parse)
\* ========================================================================
\* one iteration of the loop of _do_parse, with whether an M30 line has
\* been handled carried along
ExStepEnded(kind, m) ==
    /\ run = "excellon" /\ ex.err = "none" /\ Len(ex.objects) < MaxObjs
    /\ \E r \in {do_parse_line(ex, kind, m)} :
         /\ r.p.pos[1] \in Coords /\ r.p.pos[2] \in Coords
         /\ ex' = r.p
         /\ last' = [item |-> kind, h |-> r.h, w |-> r.w,
                     arg |-> IF kind = "tool_selection" THEN m.index ELSE None]
         /\ files' = [ended |-> files.ended \/ (kind = "end_of_program" /\ r.p.err = "none")]
    /\ UNCHANGED <<run, tk, gb>>

EndToolDef ==
    \E m \in {[index |-> i, diameter |-> d] : i \in DefIndices, d \in Diameters} :
        ExStepEnded("normal_tooldef", m)
EndToolSelection == \E m \in {[index |-> i] : i \in SelIndices} : ExStepEnded("tool_selection", m)
EndM48 == ExStepEnded("begin_header", << >>)
EndPercent == ExStepEnded("rewind_shorthand", << >>)
EndM30 == ExStepEnded("end_of_program", << >>)
EndG05 == ExStepEnded("drill_mode", << >>)
EndCoord == \E m \in XY : ExStepEnded("naked_coordinate", m)

NextEnd ==
    \/ EndToolDef \/ EndToolSelection \/ EndM48 \/ EndPercent \/ EndM30 \/ EndG05
    \/ EndCoord

\* ========================================================================
\* the tokenizer up to the end of the input (rs274x.py _split_commands)
\* ========================================================================
\* the loop of _split_commands reads the next character
TkRead == ~files.ended /\ TkChar

\* the loop of _split_commands ends with the input: the generator returns
\* and yields nothing after the loop
TkEnd ==
    /\ run = "tokenizer" /\ ~files.ended
    /\ files' = [ended |-> TRUE]
    /\ last' = [item |-> "end", h |-> "end", w |-> {}]
    /\ UNCHANGED <<run, ex, tk, gb>>

NextTE == TkRead \/ TkEnd

\* ========================================================================
\* Specifications
\* ========================================================================
NoLast == [item |-> "none", h |-> "none", w |-> {}, neg_seen |-> FALSE,
           redefined |-> FALSE]

NoFiles == << >>

InitAll == ex = ExInit /\ tk = TkInit /\ gb = GbInit /\ last = NoLast
InitParser == InitAll /\ files = NoFiles

InitX == run = "excellon" /\ InitParser
SpecX == InitX /\ [][NextX]_vars

InitT == run = "tokenizer" /\ InitParser
SpecT == InitT /\ [][NextT]_vars

InitG == run = "gerber" /\ InitParser
SpecG == InitG /\ [][NextG]_vars
SpecP == InitG /\ [][NextP]_vars

SpecI == InitG /\ [][NextI]_vars
SpecE == InitG /\ [][NextE]_vars
SpecD == InitG /\ [][NextD]_vars
SpecA == InitG /\ [][NextA]_vars
SpecF == InitG /\ [][NextF]_vars

InitM == run = "merge" /\ InitAll /\ files \in {f \in MergeInputs : WellFormed(f)}
SpecM == InitM /\ [][NextM]_vars

InitS == run = "split" /\ InitAll /\ files \in SplitInputs
SpecS == InitS /\ [][NextS]_vars

InitB == run = "bounds" /\ InitAll /\ files \in BoundsInputs
SpecB == InitB /\ [][NextB]_vars

\* either parser, for properties that span both
InitXG == run \in {"excellon", "gerber"} /\ InitParser
NextXG == NextX \/ NextG
SpecXG == InitXG /\ [][NextXG]_vars

\* the object loop of generate_statements, from the GraphicsState it creates
InitO == run = "output" /\ ex = ExInit /\ tk = TkInit /\ gb = OutInit /\ last = NoLast
         /\ files = NoFiles
SpecO == InitO /\ [][NextO]_vars

\* generate_statements on a file
InitN == run = "generate" /\ InitAll /\ files \in GenInputs
SpecN == InitN /\ [][NextN]_vars

\* GerberFile.from_string(f.to_gerber())
InitR ==
    /\ run = "trip" /\ ex = ExInit /\ tk = TkInit /\ gb = GbInitSettings /\ last = NoLast
    /\ \E f \in TripInputs :
         files = [input |-> f, text |-> file_to_gerber(f, NoSettings, TRUE).out, pos |-> 1]
SpecR == InitR /\ [][NextR]_vars

\* the object loop of ExcellonFile._generate_statements, from the context
\* it creates
InitC == run = "xnc" /\ ex = ExcellonContext(XncToolTable) /\ tk = TkInit /\ gb = GbInit
         /\ last = NoLast /\ files = NoFiles
SpecC == InitC /\ [][NextC]_vars

\* to_excellon on a file
InitY == run = "to_excellon" /\ InitAll /\ files \in XncInputs
SpecY == InitY /\ [][NextY]_vars

\* ExcellonFile.open in a directory
InitK == run = "open" /\ InitAll /\ files \in NcInputs
SpecK == InitK /\ [][NextK]_vars

\* GerberFile.from_string(data) and ExcellonFile.from_string(data, settings)
InitJ ==
    /\ run \in {"excellon", "gerber"} /\ ex = ExInit /\ tk = TkInit /\ gb = GbInitSettings
    /\ last = NoLast
    /\ files \in {[settings |-> st, result |-> NotReturned] :
                     st \in IF run = "excellon" THEN {NoSettings, GivenSettings}
                            ELSE {NoSettings}}
SpecJ == InitJ /\ [][NextJ]_vars

\* coordinate statements with omitted coordinates
SpecU == InitG /\ [][NextU]_vars

\* offset on a file
InitV == run = "offset" /\ InitAll /\ files \in OffsetInputs
SpecV == InitV /\ [][NextV]_vars

\* to_gerber with and without settings
InitW == run = "to_gerber" /\ InitAll /\ files \in ToGerberInputs
SpecW == InitW /\ [][NextW]_vars

\* coordinate commands of a file that states its notation
InitQ == run = "gerber" /\ ex = ExInit /\ tk = TkInit /\ gb = GbInitSettings /\ last = NoLast
         /\ files = NoFiles
SpecQ == InitQ /\ [][NextQ]_vars

\* objects drawn between image transform statements
InitH == run = "gerber" /\ InitAll /\ files = StatedInit
SpecH == InitH /\ [][NextH]_vars

\* _create_arc in multi-quadrant mode
InitZ == run = "arc" /\ InitAll /\ files \in ArcInputs
SpecZ == InitZ /\ [][NextZ]_vars

\* Excellon lines before and after M30
InitEnd == run = "excellon" /\ InitAll /\ files = [ended |-> FALSE]
SpecEnd == InitEnd /\ [][NextEnd]_vars

\* the tokenizer on a whole input
InitTE == run = "tokenizer" /\ InitAll /\ files = [ended |-> FALSE]
SpecTE == InitTE /\ [][NextTE]_vars

\* ========================================================================
\* Claims
\* ========================================================================
PState == ex.program_state
PState2 == ex'.program_state

C3_AsStated ==
    [][(run = "excellon" /\ last'.h = "linear_mode" /\ PState = "routing"
            /\ ex.active_tool # NoTool /\ ex'.pos # ex.pos) =>
        IF ex.drill_down
        THEN /\ Len(ex'.objects) = Len(ex.objects) + 1
             /\ ex'.objects[Len(ex'.objects)].type \in {"Line", "Arc"}
        ELSE ex'.objects = ex.objects]_vars

\* C4 as stated: outside the header a repeat command with a tool active
\* appends count Flash objects and parsing continues (zero objects for
\* count 0); inside the header objects and position are unchanged.
C4_AsStated ==
    [][(run = "excellon" /\ last'.h = "repeat_hole") =>
        IF PState = "header"
        THEN ex'.objects = ex.objects /\ ex'.pos = ex.pos /\ ex'.err = "none"
        ELSE ex.active_tool # NoTool =>
                /\ ex'.err = "none"
                /\ \E count \in 0 .. 2 : Len(ex'.objects) = Len(ex.objects) + count]_vars

\* C5 as stated: a G85 slot command in drilling state with an active tool
\* appends exactly one Line with the active tool.
C5_AsStated ==
    [][(run = "excellon" /\ last'.h = "slot_dotted" /\ PState = "drilling"
            /\ ex.active_tool # NoTool) =>
        /\ ex'.err = "none"
        /\ Len(ex'.objects) = Len(ex.objects) + 1
        /\ ex'.objects[Len(ex'.objects)].type = "Line"
        /\ ex'.objects[Len(ex'.objects)].tool = ex.active_tool]_vars

\* C7: the tokenizer's extended state starts false; a % toggles it unless
\* it closes nothing and the pending word command starts with G04, in which
\* case the state stays false; outside an extended command each of *, CR,
\* LF ends the word command, which is emitted unless empty; inside one they
\* split nothing, and the closing % emits the whole text since the opening
\* % as one command.
C7_Tokenizer ==
    [][run = "tokenizer" =>
        LET c == last'.item
            ext == tk.extended_command
            comment == ~ext /\ StartsWithG04(Pending(tk))
        IN /\ (tk.data = << >>) => ~ext
           /\ (c = "%" /\ ~comment) => tk'.extended_command = ~ext
           /\ (c = "%" /\ comment) => tk'.extended_command = FALSE
           /\ c # "%" => tk'.extended_command = ext
           /\ (~ext /\ c \in Delims) =>
                 /\ tk'.start = Len(tk'.data)
                 /\ IF \A k \in 1 .. Len(Pending(tk)) : Pending(tk)[k] = " "
                    THEN tk'.out = tk.out
                    ELSE /\ Len(tk'.out) = Len(tk.out) + 1
                         /\ SubSeq(tk'.out, 1, Len(tk.out)) = tk.out
                         /\ tk'.out[Len(tk'.out)].text = Strip(Pending(tk))
           /\ (ext /\ c \in Delims) => (tk'.out = tk.out /\ tk'.start = tk.start)
           /\ (ext /\ c = "%") =>
                 /\ tk.start >= 1 /\ tk.data[tk.start] = "%"
                 /\ \A k \in tk.start + 1 .. Len(tk.data) : tk.data[k] # "%"
                 /\ Len(tk'.out) = Len(tk.out) + 1
                 /\ tk'.out[Len(tk'.out)].text = SubSeq(tk.data, tk.start + 1, Len(tk.data))]_vars

\* an extended command holding a line break has been emitted whole,
\* after a G04 comment whose % opened nothing
C7_Witness ==
    /\ run = "tokenizer"
    /\ tk.data = <<"G04", "%", "%", "\n", "%">>
    /\ ~tk.extended_command
    /\ Len(tk.out) = 1 /\ tk.out[1].text = <<"\n">>

\* C6: selecting a tool index that has not been defined aborts the Excellon
\* parse and appends no object, then or later; selecting a defined index
\* makes that tool the active tool; T0 leaves the active tool unchanged.  In
\* Gerber, selecting an aperture number below 10, or one no AD statement
\* has defined, aborts the parse and leaves the current aperture unchanged.
C6_UndefinedSelection ==
    [][/\ (run = "excellon" /\ last'.h = "tool_selection") =>
            LET index == last'.arg
            IN IF index = 0
               THEN ex'.active_tool = ex.active_tool /\ ex'.err = "none"
               ELSE IF index \notin DOMAIN ex.tools \/ ex.tools[index] = NoTool
               THEN /\ ex'.err # "none"
                    /\ ex'.objects = ex.objects
                    /\ ex'.active_tool = ex.active_tool
               ELSE ex'.active_tool = ex.tools[index] /\ ex'.err = "none"
       /\ (run = "excellon" /\ ex.err # "none") => ex'.objects = ex.objects
       /\ (run = "gerber" /\ last'.h = "aperture") =>
            LET number == last'.m.number
            IN IF \/ number < 10
                  \/ number \notin DOMAIN gb.aperture_map
                  \/ gb.aperture_map[number] = NoAperture
               THEN /\ gb'.err # "none"
                    /\ gb'.aperture = gb.aperture
                    /\ gb'.objects = gb.objects
               ELSE gb'.aperture = gb.aperture_map[number] /\ gb'.err = "none"
       /\ (run = "gerber" /\ gb.err # "none") => gb' = gb]_vars

\* an Excellon parse aborted by the selection of undefined tool 2 while
\* tool 1 was active
C6_Witness ==
    /\ run = "excellon"
    /\ last.h = "tool_selection" /\ last.arg = 2
    /\ ex.err = "SyntaxError"
    /\ ex.active_tool # NoTool /\ ex.active_tool = ex.tools[1]

\* C8 as stated: once an IPNEG has been read, every later LPD stores
\* polarity_dark = false and every later LPC stores true; while the image
\* polarity is positive the stored polarity is the requested one.
C8_AsStated ==
    [][(run = "gerber" /\ last'.h = "load_polarity") =>
        /\ last.neg_seen => gb'.polarity_dark = (last'.m.polarity = "C")
        /\ gb.image_polarity = "positive" => gb'.polarity_dark = (last'.m.polarity = "D")]_vars

\* C8 amended: while the image polarity is negative, every LPD stores
\* polarity_dark = false and every LPC stores true; while it is positive,
\* also after an earlier IPNEG, the stored polarity is the requested one.
\* A Flash or Line appended to the object list and a Region opened by G36
\* carry the polarity stored at that moment.
C8_PolarityInversion ==
    [][run = "gerber" =>
        /\ last'.h = "load_polarity" =>
              /\ gb.image_polarity = "negative" =>
                    gb'.polarity_dark = (last'.m.polarity = "C")
              /\ gb.image_polarity = "positive" =>
                    gb'.polarity_dark = (last'.m.polarity = "D")
              /\ gb'.image_polarity = gb.image_polarity
        /\ (last'.h = "coord" /\ Len(gb'.objects) > Len(gb.objects)
                /\ gb'.objects[Len(gb'.objects)].type \in {"Flash", "Line"}) =>
              gb'.objects[Len(gb'.objects)].polarity_dark = gb.polarity_dark
        /\ (last'.h = "region_start" /\ gb'.err = "none") =>
              gb'.current_region.polarity_dark = gb.polarity_dark]_vars

\* an LPD read under negative image polarity, inside a region that was
\* opened dark, has stored clear polarity
C8_Witness ==
    /\ run = "gerber"
    /\ last.h = "load_polarity" /\ last.m.polarity = "D"
    /\ gb.image_polarity = "negative"
    /\ ~gb.polarity_dark
    /\ gb.current_region # NoRegion /\ gb.current_region.polarity_dark

C10_RegionMisuse ==
    [][run = "gerber" =>
        /\ (last'.h = "region_end" /\ gb.current_region = NoRegion) =>
              gb'.err # "none" /\ gb'.objects = gb.objects
        /\ (last'.h = "coord" /\ last'.m.operation = "D03" /\ gb.current_region # NoRegion) =>
              /\ gb'.err # "none"
              /\ gb'.objects = gb.objects
              /\ gb'.current_region = gb.current_region]_vars

\* a D03 has aborted the parse inside a region that holds a segment
C10_Witness ==
    /\ run = "gerber"
    /\ last.h = "coord" /\ last.m.operation = "D03"
    /\ gb.err = "SyntaxError"
    /\ RegionBool(gb.current_region)
    /\ gb.objects = << >>

C12_AsStated ==
    [][(/\ run = "gerber" /\ last'.h = "coord"
        /\ last'.m.operation = "None"
        /\ (last'.m.x # None \/ last'.m.y # None)) =>
        LET executed_as(op) == parse_command(gb, "coord", [last'.m EXCEPT !.operation = op]).p
        IN IF gb.last_operation \in {"D1", "D01"}
           THEN "no_operation_code" \in last'.w /\ gb' = executed_as("D01")
           ELSE IF "siemens" \in gb.generator_hints
           THEN gb' = executed_as(gb.last_operation)
           ELSE /\ gb'.err # "none"
                /\ gb'.objects = gb.objects
                /\ gb'.current_region = gb.current_region]_vars

C14_Dispatch ==
    [][(run = "gerber" /\ last'.item \in Lines) =>
        LET line == last'.item
            Pos(n) == CHOOSE k \in 1 .. Len(STATEMENT_REGEXES) : STATEMENT_REGEXES[k] = n
            res == GerberHandle(last'.h, gb, Groups(last'.h, line))
        IN IF Matching(line) = {}
           THEN /\ last'.h = "unknown"
                /\ "unknown_statement" \in last'.w
                /\ gb' = [gb EXCEPT !.comments =
                                  Append(@, <<"Unknown statement found:", line>>)]
                /\ gb'.err = "none" /\ ~gb'.done
           ELSE /\ last'.h \in Matching(line)
                /\ \A n \in Matching(line) : Pos(last'.h) <= Pos(n)
                /\ "unknown_statement" \notin last'.w
                /\ (res.p.err = "none") = (gb'.err = "none")
                /\ res.p.err = "none" => gb' = res.p]_vars

\* the Eagle attribute comment has gone to the attribute handler and not
\* to the comment handler; the command FOO, read next, has reached no
\* handler and is kept as the only comment
C14_Witness ==
    /\ run = "gerber"
    /\ last.item = "FOO" /\ last.h = "unknown"
    /\ gb.err = "none"
    /\ gb.file_attrs[".AperFunction"] = <<"a", "b">>
    /\ "eagle" \in gb.generator_hints
    /\ gb.comments = << <<"Unknown statement found:", "FOO">> >>

\* C15: TF, TA and TO store the value list under the name in the file, the
\* aperture and the object dictionary; TD without a name empties the
\* aperture and the object dictionary and leaves the file dictionary as it
\* is; TD with a name removes that name from the object dictionary or, if
\* it is not there, from the aperture dictionary; TD with the name of a file
\* attribute, or with a name that no dictionary holds, aborts the parse and
\* removes nothing.
C15_AsStated ==
    [][(run = "gerber" /\ last'.item \in AttrLines) =>
        LET t == AttributeText(last'.item)
            Empty == [n \in AttrNames |-> NoAttr]
            dicts(g) == <<g.file_attrs, g.aperture_attrs, g.object_attrs>>
        IN CASE t.type = "TF" ->
                  dicts(gb') = <<[gb.file_attrs EXCEPT ![t.name] = Split(t.value)],
                                 gb.aperture_attrs, gb.object_attrs>>
             [] t.type = "TA" ->
                  dicts(gb') = <<gb.file_attrs,
                                 [gb.aperture_attrs EXCEPT ![t.name] = Split(t.value)],
                                 gb.object_attrs>>
             [] t.type = "TO" ->
                  dicts(gb') = <<gb.file_attrs, gb.aperture_attrs,
                                 [gb.object_attrs EXCEPT ![t.name] = Split(t.value)]>>
             [] t.type = "TD" /\ t.name = "" ->
                  gb'.err = "none" /\ dicts(gb') = <<gb.file_attrs, Empty, Empty>>
             [] t.type = "TD" /\ t.name # "" ->
                  IF gb.file_attrs[t.name] # NoAttr
                     \/ (gb.object_attrs[t.name] = NoAttr /\ gb.aperture_attrs[t.name] = NoAttr)
                  THEN gb'.err # "none" /\ dicts(gb') = dicts(gb)
                  ELSE /\ gb'.err = "none"
                       /\ dicts(gb') =
                            IF gb.object_attrs[t.name] # NoAttr
                            THEN <<gb.file_attrs, gb.aperture_attrs,
                                   [gb.object_attrs EXCEPT ![t.name] = NoAttr]>>
                            ELSE <<gb.file_attrs,
                                   [gb.aperture_attrs EXCEPT ![t.name] = NoAttr],
                                   gb.object_attrs>>]_vars

C17_MergeApertures ==
    [][(run = "merge" /\ last'.item = "merge") =>
        LET L == files.a.apertures \o files.b.apertures
        IN /\ Len(files'.a.apertures) <= Len(L)
           /\ (Len(files'.a.apertures) = Len(L))
                <=> (\A i, j \in 1 .. Len(L) :
                        i # j => to_gerber(files.aps, L[i]) # to_gerber(files.aps, L[j]))]_vars

C17_Witness ==
    /\ run = "merge" /\ last.item = "merge"
    /\ Len(last.before.a.apertures) = 2 /\ Len(last.before.b.apertures) = 2
    /\ Len(files.a.apertures) = 2
    /\ files.a.apertures[2] \in ApIdsB

\* every object of the list has no aperture or one that is in the list
AperturesListed(f, objects, apertures) ==
    \A k \in 1 .. Len(objects) :
        f.objs[objects[k]] = None \/ InList(apertures, f.objs[objects[k]])

GenBase == 1 + Len(files.file_attrs) + 5
           + (IF files.drop_comments THEN 0 ELSE 1 + Len(files.comments)) + 4
GenAdds == {p \in (GenBase + 1) .. Len(last.out) : last.out[p].kind = "ADD"}
GenAddAt(k) == IF k = 0 THEN GenBase
               ELSE CHOOSE p \in GenAdds : Cardinality({q \in GenAdds : q <= p}) = k
GenDraws == {p \in (GenAddAt(Cardinality(GenAdds)) + 1) .. (Len(last.out) - 1) :
                last.out[p].kind \in {"D03XY", "D01XY"}}
GenDrawAt(k) == CHOOSE p \in GenDraws : Cardinality({q \in GenDraws : q <= p}) = k
FirstOfMacro(aps, k) ==
    /\ aps[k].shape = "macro"
    /\ \A j \in 1 .. (k - 1) : ~(aps[j].shape = "macro" /\ aps[j].macro = aps[k].macro)
Emitted == last'.h = "yield"
OutKinds(kind) == {k \in 1 .. Len(last'.out) : last'.out[k].kind = kind}
StartPoint(obj) == IF obj.type = "Region" THEN obj.outline[1] ELSE <<obj.x1, obj.y1>>
RequiredMode(obj) ==
    IF obj.type = "Line" THEN "LINEAR"
    ELSE IF obj.clockwise THEN "CIRCULAR_CW" ELSE "CIRCULAR_CCW"
SegmentMode(c) ==
    IF c = << >> THEN "LINEAR" ELSE IF c[1] THEN "CIRCULAR_CW" ELSE "CIRCULAR_CCW"
RECURSIVE ModeChanges(_, _, _)
ModeChanges(centers, k, mode) ==
    IF k > Len(centers) THEN 0
    ELSE (IF SegmentMode(centers[k]) # mode THEN 1 ELSE 0)
         + ModeChanges(centers, k + 1, SegmentMode(centers[k]))
C22_Step ==
    Emitted =>
      LET obj == last'.item
      IN /\ (OutKinds("LP") # {}) <=> (obj.polarity_dark # gb.polarity_dark)
         /\ Cardinality(OutKinds("LP")) <= 1
         /\ \A k \in OutKinds("LP") : last'.out[k].dark = obj.polarity_dark
         /\ gb'.polarity_dark = obj.polarity_dark
         /\ obj.type # "Region" =>
              /\ (OutKinds("D") # {}) <=> (obj.aperture # gb.aperture)
              /\ Cardinality(OutKinds("D")) <= 1
              /\ \A k \in OutKinds("D") : OutApertures[last'.out[k].number - 9] = obj.aperture
              /\ gb'.aperture = obj.aperture
         /\ obj.type = "Region" => OutKinds("D") = {} /\ gb'.aperture = gb.aperture
         /\ obj.type \in {"Line", "Arc"} =>
              /\ (OutKinds("G") # {}) <=> (RequiredMode(obj) # gb.interpolation_mode)
              /\ Cardinality(OutKinds("G")) <= 1
              /\ gb'.interpolation_mode = RequiredMode(obj)
         /\ obj.type = "Region" =>
              Cardinality(OutKinds("G")) = ModeChanges(obj.arc_centers, 1, gb.interpolation_mode)
         /\ obj.type = "Flash" => OutKinds("G") = {} /\ OutKinds("XYD02") = {}
         /\ obj.type # "Flash" =>
              /\ (OutKinds("XYD02") # {}) <=> (StartPoint(obj) # gb.point)
              /\ Cardinality(OutKinds("XYD02")) <= 1
              /\ \A k \in OutKinds("XYD02") :
                    /\ last'.out[k].x = StartPoint(obj)[1] * 1000000
                    /\ last'.out[k].y = StartPoint(obj)[2] * 1000000
C22_AsStated == [][C22_Step]_vars
\* a line that follows an object ending at the line's start, with the same
\* aperture, polarity and mode: nothing but the D01 is emitted
C22_Witness ==
    /\ last.h = "yield" /\ last.item.type = "Line"
    /\ last.before.point = <<last.item.x1, last.item.y1>>
    /\ last.before.aperture = last.item.aperture
    /\ Len(last.out) = 1

\* ------------------------------------------------------------------------
\* C23: parsing the text to_gerber produces for a file of flashes, lines,
\* arcs and regions that use apertures of its list succeeds, and gives as
\* many objects, in the same order, each of the same kind, with the same
\* coordinates, polarity and aperture.
SameObject(a, b) ==
    /\ a.type = b.type /\ a.polarity_dark = b.polarity_dark
    /\ a.type = "Flash" => a.x = b.x /\ a.y = b.y /\ a.aperture = b.aperture
    /\ a.type \in {"Line", "Arc"} =>
          /\ a.x1 = b.x1 /\ a.y1 = b.y1 /\ a.x2 = b.x2 /\ a.y2 = b.y2
          /\ a.aperture = b.aperture
    /\ a.type = "Arc" => a.cx = b.cx /\ a.cy = b.cy /\ a.clockwise = b.clockwise
    /\ a.type = "Region" => a.outline = b.outline /\ a.arc_centers = b.arc_centers
C23_AsStated ==
    run = "trip" =>
      /\ gb.err = "none"
      /\ gb.done =>
           /\ Len(gb.objects) = Len(files.input.objects)
           /\ \A k \in 1 .. Len(gb.objects) : SameObject(gb.objects[k], files.input.objects[k])

\* ------------------------------------------------------------------------
\* C24: for any ExcellonFile the XNC statements are produced, in the order:
\* generator comment and original comments, M48, the unit line, one tool
\* definition per tool the objects use with indices 1..n ascending in
\* (plated, diameter, depth_offset), each preceded by a TYPE line iff the
\* plating is mixed, %, the object statements, and M30 last; every T
\* select among the object statements has an index of the tool table.
XncOut == last.out
XncAt(kind) == {p \in 1 .. Len(XncOut) : XncOut[p].kind = kind}
XncOnly(kind) == CHOOSE p \in XncAt(kind) : TRUE
C24_AsStated ==
    (run = "to_excellon" /\ last.h # "none") =>
      /\ last.h = "yield"
      /\ XncOut[1] = [kind |-> "comment", text |-> " XNC file generated by gerbonara"]
      /\ Cardinality(XncAt("M48")) = 1 /\ Cardinality(XncAt("unit")) = 1
      /\ Cardinality(XncAt("%")) = 1 /\ XncAt("M30") = {Len(XncOut)}
      /\ \A p \in XncAt("comment") : p < XncOnly("M48")
      /\ XncOnly("unit") = XncOnly("M48") + 1
      /\ \A p \in XncAt("tooldef") \cup XncAt("TYPE") :
            XncOnly("unit") < p /\ p < XncOnly("%")
      /\ \A p \in XncAt("T") \cup XncAt("XY") \cup XncAt("G05") \cup XncAt("G01") :
            XncOnly("%") < p
      /\ LET used == {files.objects[k].tool : k \in 1 .. Len(files.objects)}
             mixed == Cardinality({t.plated : t \in used}) > 1
         IN /\ {XncOut[p].tool : p \in XncAt("tooldef")} = used
            /\ {XncOut[p].index : p \in XncAt("tooldef")} = 1 .. Cardinality(used)
            /\ \A p, q \in XncAt("tooldef") :
                  p < q => /\ XncOut[p].index < XncOut[q].index
                           /\ ~ToolKeyLess(XncOut[q].tool, XncOut[p].tool)
            /\ \A p \in XncAt("tooldef") :
                  mixed <=> (XncOut[p - 1].kind = "TYPE"
                             /\ XncOut[p - 1].plated = (XncOut[p].tool.plated = 1))
            /\ mixed \/ XncAt("TYPE") = {}
            /\ \A p \in XncAt("T") :
                  \E q \in XncAt("tooldef") : XncOut[q].index = XncOut[p].index
      /\ LET hits == XncAt("XY") \cup XncAt("G01")
         IN Cardinality(hits) = Len(files.objects)

\* ------------------------------------------------------------------------
\* C25: every object of the sequence is emitted, and its statements depend
\* on the context the objects before it left: a T select iff the object's
\* tool differs from the current tool, a G05 before a flash iff the mode
\* is not drill mode, a G00 move before a line or arc unless the mode is
\* route mode and the current point is the object's start point.
XncKinds(kind) == {k \in 1 .. Len(last'.out) : last'.out[k].kind = kind}
C25_Step ==
    last'.h # "none" =>
      LET obj == last'.item
      IN /\ last'.h = "yield"
         /\ (XncKinds("T") # {}) <=> (obj.tool # ex.current_tool)
         /\ obj.type = "Flash" => ((XncKinds("G05") # {}) <=> (ex.mode # "DRILLING"))
         /\ obj.type # "Flash" =>
              ((XncKinds("G00") = {})
                 <=> (ex.mode = "ROUTING" /\ ex.current_point = <<obj.x1, obj.y1>>))
C25_AsStated == [][C25_Step]_vars

\* ------------------------------------------------------------------------
\* C26: the file that GerberFile.from_string or ExcellonFile.from_string
\* returns has import settings, and their unit and both digit counts of
\* their number format are known.
C26_AsStated ==
    (run \in {"excellon", "gerber"} /\ files # NoFiles /\ files.result # NotReturned) =>
      /\ files.result # NoSettings
      /\ files.result.unit \in {"mm", "inch"}
      /\ files.result.number_format[1] # None /\ files.result.number_format[2] # None

\* ------------------------------------------------------------------------
\* C27: ExcellonFile.open without settings takes the settings from
\* nc_param.txt, else from ncdrill.log, when the directory holds one: the
\* number format of FORMAT, the notation of COORDINATES, the unit of
\* OUTPUT-UNITS and the zero suppression of the SUPPRESS lines, and rejects
\* a file that sets both SUPPRESS flags to YES; with settings passed no
\* parameter file is read.
NcHas(data, key, value) == \E k \in 1 .. Len(data) : data[k] = [key |-> key, value |-> value]
NcLast(data, key) ==
    data[CHOOSE k \in 1 .. Len(data) :
            data[k].key = key /\ \A j \in (k + 1) .. Len(data) : data[j].key # key]
C27_AsStated ==
    (run = "open" /\ last.item = "open") =>
      LET r == last.result
          fn == IF "nc_param.txt" \in files.dir THEN "nc_param.txt" ELSE "ncdrill.log"
          data == files.data[fn]
          both == /\ NcHas(data, "SUPPRESS-LEAD-ZEROES", "YES")
                  /\ \E k \in 1 .. Len(data) : data[k].key = "SUPPRESS-TRAIL-ZEROES"
                  /\ NcLast(data, "SUPPRESS-TRAIL-ZEROES").value = "YES"
      IN /\ files.settings # NoSettings =>
              r.consulted = "none" /\ r.err = "none" /\ r.import_settings = files.settings
         /\ (files.settings = NoSettings /\ files.dir # {}) =>
              /\ r.consulted = fn
              /\ both => r.err = "SyntaxError"
              /\ ~both =>
                   /\ r.err = "none" /\ r.import_settings # NoSettings
                   /\ (\E k \in 1 .. Len(data) : data[k].key = "FORMAT") =>
                         r.import_settings.number_format = format_digits(NcLast(data, "FORMAT").value)
                   /\ NcHas(data, "OUTPUT-UNITS", "METRIC") => r.import_settings.unit = "mm"
                   /\ NcHas(data, "COORDINATES", "absolute") =>
                         r.import_settings.notation = "absolute"
                   /\ r.import_settings.zeros =
                         (IF NcHas(data, "SUPPRESS-LEAD-ZEROES", "YES") THEN "leading"
                          ELSE "trailing")

\* ------------------------------------------------------------------------
\* C28: a coordinate statement with D01, D02 or D03 that omits X (or Y)
\* keeps the X (or Y) of the current point and takes a coordinate it gives;
\* when it omits one while there is no current point it warns and takes
\* the omitted coordinate as 0; after the statement the current point is
\* defined.
C28_Step ==
    (last'.h = "coord" /\ gb'.err = "none") =>
      LET m == last'.m
      IN /\ gb'.point # NoPoint
         /\ m.x # None => gb'.point[1] = m.x
         /\ m.y # None => gb'.point[2] = m.y
         /\ (m.x = None /\ gb.point # NoPoint) => gb'.point[1] = gb.point[1]
         /\ (m.y = None /\ gb.point # NoPoint) => gb'.point[2] = gb.point[2]
         /\ ((m.x = None \/ m.y = None) /\ gb.point = NoPoint) =>
               /\ last'.w \cap {"coordinate_omitted", "D01_without_D02"} # {}
               /\ m.x = None => gb'.point[1] = 0
               /\ m.y = None => gb'.point[2] = 0
C28_AsStated == [][C28_Step]_vars
\* a statement that gives only Y after the point (1, 1) was reached
C28_Witness ==
    /\ run = "gerber" /\ last.h = "coord" /\ gb.err = "none"
    /\ last.m.x = None /\ last.m.y = 0 /\ gb.point = <<1, 0>>
\* the first coordinate statement of the text omits X
C28_WitnessFirst ==
    /\ run = "gerber" /\ last.h = "coord" /\ gb.err = "none"
    /\ "coordinate_omitted" \in last.w /\ last.m.x = None /\ last.m.y = 1
    /\ gb.point = <<0, 1>>

\* ------------------------------------------------------------------------
\* C29: offset keeps the number, order and kind of the objects and moves
\* every flash position, every end point of a line or arc, every outline
\* point of a region and every arc center of a region by (dx, dy); the
\* center of an arc relative to its start point stays as it is.
Moved(a, b, dx, dy) ==
    /\ a.type = b.type
    /\ a.type = "Flash" => b.x = a.x + dx /\ b.y = a.y + dy
    /\ a.type \in {"Line", "Arc"} =>
          /\ b.x1 = a.x1 + dx /\ b.y1 = a.y1 + dy
          /\ b.x2 = a.x2 + dx /\ b.y2 = a.y2 + dy
    /\ a.type = "Arc" => b.cx = a.cx /\ b.cy = a.cy
    /\ a.type = "Region" =>
          /\ Len(b.outline) = Len(a.outline) /\ Len(b.arc_centers) = Len(a.arc_centers)
          /\ \A k \in 1 .. Len(a.outline) :
                b.outline[k] = <<a.outline[k][1] + dx, a.outline[k][2] + dy>>
          /\ \A k \in 1 .. Len(a.arc_centers) :
                IF a.arc_centers[k] = << >> THEN b.arc_centers[k] = << >>
                ELSE b.arc_centers[k] = <<a.arc_centers[k][1],
                                          <<a.arc_centers[k][2][1] + dx,
                                            a.arc_centers[k][2][2] + dy>>>>
C29_AsStated ==
    (run = "offset" /\ files.moved) =>
      /\ Len(files.result) = Len(files.objects)
      /\ \A k \in 1 .. Len(files.objects) :
            Moved(files.objects[k], files.result[k], files.dx, files.dy)

\* ------------------------------------------------------------------------
\* C30: to_gerber without settings returns a text whose FS statement
\* declares leading-zero suppression, absolute notation and the 5.6 number
\* format, whatever the file was imported with, a file that was not
\* imported included.
FsDeclared(out) == {k \in 1 .. Len(out) : out[k].kind = "FS"}
C30_AsStated ==
    (run = "to_gerber" /\ files.err # "pending" /\ files.settings = NoSettings) =>
      /\ files.err = "none"
      /\ FsDeclared(files.out) # {}
      /\ \A k \in FsDeclared(files.out) :
            /\ files.out[k].zeros = "L" /\ files.out[k].notation = "A"
            /\ files.out[k].number_format = <<5, 6>>

\* ------------------------------------------------------------------------
\* C31: an M00 line never ends the parse and never changes the tool
\* selection: after it no exception is pending, the active tool is the one
\* that was active before, a tool or none, and a warning was issued.
C31_AsStated ==
    [][(run = "excellon" /\ last'.item = "next_tool" /\ ex.err = "none") =>
        /\ ex'.err = "none"
        /\ ex'.active_tool = ex.active_tool
        /\ last'.w # {}]_vars

\* ------------------------------------------------------------------------
\* C32: a D01, D02 or D03 command moves the current point as the notation
\* of the file says: in absolute notation the X and Y given become the
\* current point, in incremental notation (FS with I, or G91) they are
\* added to the previous current point.
C32_AsStated ==
    [][(/\ run = "gerber" /\ last'.h = "coord" /\ gb'.err = "none"
        /\ last'.m.operation \in {"D01", "D02", "D03"}
        /\ last'.m.x # None /\ last'.m.y # None /\ gb.point # NoPoint) =>
        IF gb.file_settings.notation = "incremental"
        THEN gb'.point = <<gb.point[1] + last'.m.x, gb.point[2] + last'.m.y>>
        ELSE gb'.point = <<last'.m.x, last'.m.y>>]_vars

\* ------------------------------------------------------------------------
\* C33: map_coord follows the image transforms in force: whatever IR, MI, SF
\* and OF statements were read before it, a flash lies at the matrix of the
\* rotation, mirroring and scale in force applied to the current point plus
\* the offset in force, and the center offset of an arc is that matrix
\* applied to I/J, without the offset.
StatedMat ==
    update_xform([image_mirror |-> files'.mirror, image_scale |-> files'.scale,
                  image_rotation |-> files'.rotation, image_offset |-> files'.offset,
                  mat |-> NoMat])
StatedMap(pt, relative) ==
    LET r == map_coord([StatedMat EXCEPT !.image_offset = <<0, 0>>], pt, TRUE)
    IN IF relative THEN r ELSE <<r[1] + files'.offset[1], r[2] + files'.offset[2]>>
C33_AsStated ==
    [][(/\ run = "gerber" /\ last'.h = "coord" /\ gb'.err = "none"
        /\ Len(gb'.objects) = Len(gb.objects) + 1) =>
        LET obj == gb'.objects[Len(gb'.objects)]
        IN /\ obj.type = "Flash" => <<obj.x, obj.y>> = StatedMap(gb'.point, FALSE)
           /\ obj.type = "Arc" =>
                 /\ <<obj.x2, obj.y2>> = StatedMap(gb'.point, FALSE)
                 /\ <<obj.cx, obj.cy>> = StatedMap(<<last'.m.i, last'.m.j>>, TRUE)]_vars

\* the objects drawn before a first transform statement changes a value lie
\* where C33 says
C33_FirstUse ==
    [][(/\ run = "gerber" /\ last'.h = "coord" /\ gb'.err = "none"
        /\ Len(gb'.objects) = Len(gb.objects) + 1 /\ gb.mat = NoMat
        /\ files'.scale = <<1, 1>> /\ files'.offset = <<0, 0>>) =>
        LET obj == gb'.objects[Len(gb'.objects)]
        IN obj.type = "Flash" => <<obj.x, obj.y>> = StatedMap(gb'.point, FALSE)]_vars

C34_WitnessEmpty ==
    /\ run = "gerber" /\ gb.err = "none"
    /\ last.h = "coord" /\ last.m.operation = "D02"
    /\ gb.objects = << >>
    /\ gb.current_region # NoRegion /\ gb.current_region.outline = << >>

\* ------------------------------------------------------------------------
\* C35: in the statements of a Region the I and J of each arc segment are
\* the center that Region.append stored, taken as an offset from the point
\* the segment starts at, the outline point before its end point.
SegmentStatements(out) ==
    SelectSeq(out, LAMBDA s : s.kind \in {"D01XY", "D01XYIJ"})
C35_AsStated ==
    (run = "output" /\ last.h = "yield" /\ last.item.type = "Region") =>
      LET obj == last.item
          segs == SegmentStatements(last.out)
      IN /\ Len(segs) = Len(obj.arc_centers)
         /\ \A k \in 1 .. Len(obj.arc_centers) :
               obj.arc_centers[k] # << >> =>
                 /\ segs[k].kind = "D01XYIJ"
                 /\ segs[k].i = write_gerber_value(OutSettings,
                                    obj.arc_centers[k][2][1] - obj.outline[k][1])
                 /\ segs[k].j = write_gerber_value(OutSettings,
                                    obj.arc_centers[k][2][2] - obj.outline[k][2])

\* what the statements of a Region hold: the center as an offset from the
\* point the segment ends at
C35_FromEndPoint ==
    (run = "output" /\ last.h = "yield" /\ last.item.type = "Region") =>
      LET obj == last.item
          segs == SegmentStatements(last.out)
      IN /\ Len(segs) = Len(obj.arc_centers)
         /\ \A k \in 1 .. Len(obj.arc_centers) :
               obj.arc_centers[k] # << >> =>
                 /\ segs[k].kind = "D01XYIJ"
                 /\ segs[k].i = write_gerber_value(OutSettings,
                                    obj.arc_centers[k][2][1] - obj.outline[k + 1][1])
                 /\ segs[k].j = write_gerber_value(OutSettings,
                                    obj.arc_centers[k][2][2] - obj.outline[k + 1][2])

\* ------------------------------------------------------------------------
\* C36: an M48 line read in header state (after a '%' line, as Fritzing
\* writes it) does not end the parse and leaves the program state at
\* header, so that the lines after it are read.
C36_AsStated ==
    [][(run = "excellon" /\ last'.item = "begin_header" /\ ex.err = "none"
            /\ PState = "header") =>
        /\ ex'.err = "none"
        /\ PState2 = "header"]_vars

\* ------------------------------------------------------------------------
\* C37: in multi-quadrant mode _create_arc returns one of the four
\* candidates for every start point, end point other than the start point,
\* I/J and direction: the assert after the loop is never reached, also when
\* the candidate centers lie on the line through start and end.
C37_AsStated ==
    (run = "arc" /\ files.err # "pending" /\ files.old_point # files.new_point) =>
      /\ files.err = "none"
      /\ files.obj # NoObj

\* where a candidate center lies off the line through start and end on both
\* sides, one candidate is returned
C37_OffLine ==
    (/\ run = "arc" /\ files.err # "pending" /\ files.old_point # files.new_point
     /\ \E sx \in {-1, 1}, sy \in {-1, 1} :
           point_line_distance(files.old_point, files.new_point,
               <<files.old_point[1] + sx * files.control_point[1],
                 files.old_point[2] + sy * files.control_point[2]>>) > 0) =>
      /\ files.err = "none"
      /\ files.obj # NoObj

\* ------------------------------------------------------------------------
\* C38: once an M30 line has been handled, no line read after it adds an
\* object to the object list; each such line is answered by the warning
\* that commands follow the end of the program.
C38_AsStated ==
    [][(run = "excellon" /\ files.ended /\ ex.err = "none") =>
        /\ ex'.objects = ex.objects
        /\ "after_end_of_program" \in last'.w]_vars

\* while the program state is finished, a line adds no object and is
\* answered by the warning
C38_WhileFinished ==
    [][(run = "excellon" /\ PState = "finished" /\ ex.err = "none") =>
        /\ ex'.objects = ex.objects
        /\ "after_end_of_program" \in last'.w]_vars

\* ------------------------------------------------------------------------
\* C39: the tokenizer loses no command text: at the end of the input the
\* commands emitted are, in input order, the maximal runs of characters
\* between the delimiters %, *, CR and LF that are not blank, one command
\* for each, the run that ends with the input and the G04 text before a %
\* inside a comment included.
Blank(text) == \A k \in 1 .. Len(text) : text[k] = " "
RECURSIVE RunsOf(_, _, _)
RunsOf(data, k, cur) ==
    LET run_end == IF Blank(cur) THEN << >> ELSE <<Strip(cur)>>
    IN IF k > Len(data) THEN run_end
       ELSE IF data[k] \in Delims \cup {"%"} THEN run_end \o RunsOf(data, k + 1, << >>)
       ELSE RunsOf(data, k + 1, Append(cur, data[k]))
Commands == [k \in 1 .. Len(tk.out) |-> Strip(tk.out[k].text)]
C39_AsStated ==
    (run = "tokenizer" /\ files.ended) => Commands = RunsOf(tk.data, 1, << >>)

\* on an input without % whose last character is a delimiter the commands
\* emitted are the runs that are not blank
C39_WordCommands ==
    (/\ run = "tokenizer" /\ files.ended
     /\ \A k \in 1 .. Len(tk.data) : tk.data[k] # "%"
     /\ tk.data # << >> => tk.data[Len(tk.data)] \in Delims) =>
       Commands = RunsOf(tk.data, 1, << >>)

====
